---- MODULE Spec2Model ----
(***************************************************************************)
(* Vector index lifecycle and retrieval engine of the gemini-service       *)
(* repository: the text and image index rebuild handlers, the provider     *)
(* retry helper, the datapoint id codec, the multi-image search           *)
(* re-ranker, the recommender and the event service.                       *)
(*                                                                         *)
(* Strings that the code splits or compares are sequences of one-character *)
(* strings.  Time is counted in ticks of 1/20 second, the coarsest unit in *)
(* which every sleep of the code is a whole number.                        *)
(***************************************************************************)
EXTENDS Integers, Sequences, FiniteSets, TLC

VARIABLES
  scope,            \* "text" (rebuild_index) or "image" (rebuild_image_index_multi)
  catalog,          \* the products collection: a sequence of product documents
  mirror,           \* the scope's embeddings collection: datapoint id -> number of rows
  index,            \* the scope's Vector Index: the set of datapoint ids it holds
  indexConfigured,  \* whether VertexAIService holds the scope's index handle
  now,              \* the wall clock (time.time()), in ticks
  reqLog,           \* times of the embedding-provider requests of the last minute
  faults,           \* number of failures the collaborators have produced so far
  plan,             \* what the environment may do: [budget, runs]
  departed,         \* the ids of the products that have left the catalog
  rb,               \* the rebuild handler's local state, per running request
  cd,               \* a datapoint id on its way through the codec
  sq,               \* a multi-image search request, as parsed
  sDocs,            \* product_image_embeddings: product id -> its documents
  sProducts,        \* the ids of the products collection, as the search reads it
  sr,               \* the search handler's local state
  events,           \* the events collection, in insertion order
  rProducts,        \* the ids of the products collection, as recommend reads it
  rc,               \* the recommend handler's request and local state
  es                \* the event service: its clock and the events it wrote

rebuildVars == <<scope, catalog, mirror, index, indexConfigured, now, reqLog,
                 faults, plan, departed, rb>>

codecVars == <<cd>>

searchVars == <<sq, sDocs, sProducts, sr>>

recommendVars == <<events, rProducts, rc, es>>

vars == <<rebuildVars, codecVars, searchVars, recommendVars>>

----------------------------------------------------------------------------
(* Bounds of the model *)

MaxFaults == 2      \* collaborator failures per behaviour of Spec
MaxRuns == 2        \* rebuild requests per behaviour of Spec
QuotaFaults == 8    \* collaborator failures per behaviour of SpecQuota
MaxDepartures == 1  \* products that leave the catalog per behaviour

----------------------------------------------------------------------------
(* Program constants *)

TicksPerSecond == 4 * 5

REQUESTS_PER_MINUTE == 8
WINDOW_SECONDS == 60
Window == WINDOW_SECONDS * TicksPerSecond
SECONDS_PER_REQUEST == Window \div REQUESTS_PER_MINUTE    \* 60.0 / 8 = 7.5 s
image_batch_size == 3
text_batch_size == 100
max_retries == 6
base_sleep == (6 * TicksPerSecond) \div 10                \* 0.6 s
JitterMax == TicksPerSecond \div 4                        \* 0.25 s
TextFailSleep == (12 * TicksPerSecond) \div 10            \* 1.2 s
TextBatchSleep == (8 * TicksPerSecond) \div 10            \* 0.8 s
DEFAULT_POSITION == 999

\* random.uniform(0, 0.25): the two ends of the interval
Jitters == {0, JitterMax}

SeqProcs == {"r1"}

----------------------------------------------------------------------------
(* Strings *)

Min(a, b) == IF a <= b THEN a ELSE b

Range(s) == {s[i] : i \in DOMAIN s}

DigitChar(d) == <<"0", "1", "2", "3", "4", "5", "6", "7", "8", "9">>[d + 1]

RECURSIVE NatStr(_)
NatStr(n) ==
  IF n < 10 THEN <<DigitChar(n)>>
  ELSE NatStr(n \div 10) \o <<DigitChar(n % 10)>>

\* str(int), as an f-string formats a position
Str(n) == IF n < 0 THEN <<"-">> \o NatStr(-n) ELSE NatStr(n)

\* f"{pid}_{position}" without its separator
DatapointIdNoSep(pid, position) == pid \o Str(position)

\* f"{pid}_{position}"
DatapointId(pid, position) == pid \o <<"_">> \o Str(position)

\* The last index of character c in s, 0 when there is none
LastIndexOf(s, c) ==
  LET hits == {i \in DOMAIN s : s[i] = c}
  IN IF hits = {} THEN 0 ELSE CHOOSE i \in hits : \A j \in hits : j <= i

\* str.rsplit("_", 1): one part when there is no underscore, else two
RSplit(s) ==
  LET i == LastIndexOf(s, "_")
  IN IF i = 0 THEN <<s>>
     ELSE <<SubSeq(s, 1, i - 1), SubSeq(s, i + 1, Len(s))>>

----------------------------------------------------------------------------
(* The catalogs the rebuilds read *)

\* an image document without a "position" key, or an image given as a bare url
NoPosition == 0 - 1

Img(valid, position) == [valid |-> valid, position |-> position]

Product(pid, images) == [pid |-> pid, images |-> images]

ImageCatalogs ==
  { <<>>,
    <<Product(<<"a">>, <<Img(TRUE, 1), Img(TRUE, 2)>>),
      Product(<<"b">>, <<Img(TRUE, 1), Img(FALSE, 2), Img(TRUE, 10)>>)>>,
    <<Product(<<"a">>, <<Img(TRUE, NoPosition), Img(TRUE, NoPosition)>>),
      Product(<<"b">>, <<>>)>>,
    <<Product(<<"a">>, <<Img(TRUE, 1)>>)>> }

TextCatalog(n) == [i \in 1..n |-> Product(Str(i), <<>>)]

TextCatalogs ==
  { TextCatalog(n) : n \in {1, text_batch_size + 1} }

Catalogs(s) == IF s = "image" THEN ImageCatalogs ELSE TextCatalogs

----------------------------------------------------------------------------
(* Pure helpers of the rebuild handlers *)

\* _chunks(items, n)
Chunks(items, n) ==
  [i \in 1..((Len(items) + n - 1) \div n) |->
     SubSeq(items, (i - 1) * n + 1, Min(i * n, Len(items)))]

Item(pid, position) ==
  [datapoint_id |-> DatapointId(pid, position), product_id |-> pid,
   position |-> position]

\* img.get("position", 999), and 999 for an image given as a bare url
PositionOf(img) ==
  IF img.position = NoPosition THEN DEFAULT_POSITION ELSE img.position

RECURSIVE ProductImages(_, _)
ProductImages(pid, images) ==
  IF images = <<>> THEN <<>>
  ELSE LET img == Head(images)
           rest == ProductImages(pid, Tail(images))
       IN IF img.valid THEN <<Item(pid, PositionOf(img))>> \o rest ELSE rest

\* to_embed of the image rebuild: every valid image of every product
RECURSIVE ImageItems(_)
ImageItems(products) ==
  IF products = <<>> THEN <<>>
  ELSE ProductImages(Head(products).pid, Head(products).images)
         \o ImageItems(Tail(products))

\* to_embed of the text rebuild: one (pid, text) pair per product
TextItems(products) ==
  [i \in DOMAIN products |->
     [datapoint_id |-> products[i].pid, product_id |-> products[i].pid,
      position |-> 0]]

Ids(items) == [i \in DOMAIN items |-> items[i].datapoint_id]

RowCount(m, id) == IF id \in DOMAIN m THEN m[id] ELSE 0

\* insert_many: one new row per inserted document
InsertRows(m, ids, inserted) ==
  [id \in DOMAIN m \cup {ids[i] : i \in inserted} |->
     RowCount(m, id) + Cardinality({i \in inserted : ids[i] = id})]

NoRows == <<>>

\* What an unordered bulk insert of n documents can leave behind when it
\* raises: nothing, only the first document, or all but the first
PartialInserts(n) == {{}, {1} \cap (1..(n - 1)), 2..n}

\* an admission control that waits for the window but keeps its counter
AdmissionControlNoReset(r, t) ==
  IF r.request_count >= REQUESTS_PER_MINUTE
  THEN LET elapsed == t - r.minute_start
           t2 == IF elapsed < Window
                 THEN t + (Window - elapsed + TicksPerSecond)
                 ELSE t
       IN [now |-> t2, request_count |-> r.request_count,
           minute_start |-> t2]
  ELSE [now |-> t, request_count |-> r.request_count,
        minute_start |-> r.minute_start]

\* The window admission control at the head of the item loop
AdmissionControl(r, t) ==
  IF r.request_count >= REQUESTS_PER_MINUTE
  THEN LET elapsed == t - r.minute_start
           t2 == IF elapsed < Window
                 THEN t + (Window - elapsed + TicksPerSecond)
                 ELSE t
       IN [now |-> t2, request_count |-> 0, minute_start |-> t2]
  ELSE [now |-> t, request_count |-> r.request_count,
        minute_start |-> r.minute_start]

\* _retry gives up one attempt too late
RetriesExhaustedLate(i) == i >= max_retries + 1

\* _retry: attempt i (from 0) is the last one
RetriesExhausted(i) == i >= max_retries

\* _retry: what happens to attempt i with outcome o
RetryDecision(i, o) ==
  IF o = "quota" /\ ~RetriesExhausted(i) THEN "retry"
  ELSE IF o \in {"quota", "error"} THEN "raise"
  ELSE "return"

\* base_sleep * (2 ** i) + random.uniform(0, 0.25)
BackoffSleep(i, jitter) == base_sleep * (2 ^ i) + jitter

\* The provider requests of the last minute, with the one issued at t
LogRequest(log, t) ==
  SelectSeq(log, LAMBDA x : x > t - Window) \o <<t>>

----------------------------------------------------------------------------
(* The parts of the state a behaviour of another component leaves alone *)

CodecIdle == cd = [pc |-> "idle"]

SearchIdle ==
  /\ sq = [neighbors |-> <<>>]
  /\ sDocs = <<>>
  /\ sProducts = {}
  /\ sr = [pc |-> "idle"]

RecommendIdle ==
  /\ events = <<>>
  /\ rProducts = {}
  /\ rc = [pc |-> "idle"]
  /\ es = [pc |-> "idle"]

RebuildIdle ==
  /\ scope = "none"
  /\ catalog = <<>>
  /\ mirror = <<>>
  /\ index = {}
  /\ indexConfigured = FALSE
  /\ now = 0
  /\ reqLog = <<>>
  /\ faults = 0
  /\ plan = [budget |-> 0, runs |-> 0]
  /\ departed = {}
  /\ rb = <<>>

----------------------------------------------------------------------------
(* The rebuild handlers: rebuild_index and rebuild_image_index_multi *)

FreshRun(n) ==
  [pc |-> "idle", run |-> n, old_ids |-> {}, batches |-> <<>>, b |-> 0,
   k |-> 0, attempt |-> 0, batch_embeddings |-> <<>>, pairs |-> <<>>,
   total_upsert |-> 0, failed_count |-> 0, request_count |-> 0,
   minute_start |-> 0, response |-> "none",
   \* observations of the run, read by the properties only
   enumerated |-> 0, upserted_ok |-> 0, kinds |-> {}, outcomes |-> <<>>,
   call |-> "none", startSynced |-> FALSE, startStale |-> FALSE,
   overlapped |-> FALSE, attempted |-> <<>>, skipped |-> {}, lost |-> 0]

CanFault == faults < plan.budget

Failed(r, kind) == [r EXCEPT !.kinds = @ \cup {kind}]

\* Attempt r.attempt of a provider call was answered with outcome o
Called(r, o) ==
  LET r2 == [r EXCEPT !.call = "running",
                      !.outcomes = IF r.attempt = 0 THEN <<o>> ELSE Append(@, o)]
  IN IF o = "vector" THEN r2 ELSE Failed(r2, o)

\* The first step of a batch: the item loop (image) or the batch embedding (text)
BatchEntry == IF scope = "image" THEN "fetch" ELSE "embed"

\* for batch in _chunks(to_embed, batch_size): the next batch, or the return
NextBatch(r) ==
  IF r.b < Len(r.batches)
  THEN [r EXCEPT !.b = @ + 1, !.k = 1, !.attempt = 0,
                 !.batch_embeddings = <<>>, !.pairs = <<>>, !.pc = BatchEntry]
  ELSE [r EXCEPT !.pc = "return"]

\* the batch's pairs are upserted before its docs are inserted
BatchEndUpsertFirst(r) ==
  IF r.batch_embeddings # <<>>
  THEN [r EXCEPT !.pairs = Ids(r.batch_embeddings), !.pc = "upsert"]
  ELSE NextBatch(r)

\* if batch_embeddings: build docs and pairs_for_upsert, else go on
BatchEnd(r) ==
  IF r.batch_embeddings # <<>>
  THEN [r EXCEPT !.pairs = Ids(r.batch_embeddings), !.pc = "insert"]
  ELSE NextBatch(r)

\* for item in batch: the next item of the batch, or the batch's end
AfterItem(r) ==
  IF r.k < Len(r.batches[r.b])
  THEN [r EXCEPT !.k = @ + 1, !.attempt = 0, !.pc = "fetch"]
  ELSE BatchEnd(r)

\* an embedding call that raised and is counted twice
EmbedFailedTwice(r) ==
  AfterItem([r EXCEPT !.call = "raised", !.failed_count = @ + 2])

\* except Exception as e: failed_count += 1; continue
EmbedFailed(r) ==
  AfterItem([r EXCEPT !.call = "raised", !.failed_count = @ + 1])

\* a failed download that is skipped without being counted
DownloadFailedUncounted(r) == AfterItem(Failed(r, "download"))

\* status_code != 200, more than 10 MiB, or requests.get raised:
\* failed_count += 1; continue
DownloadFailed(r) ==
  AfterItem([Failed(r, "download") EXCEPT !.failed_count = @ + 1])

\* the outer except: the handler answers 500
ErrorResponse(r) == [r EXCEPT !.pc = "done", !.response = "error"]

\* total_upsert is increased before the upsert is attempted
UpsertStepEager(r, ok) == [r EXCEPT !.total_upsert = @ + Len(r.pairs)]

\* try: upsert(pairs_for_upsert); total_upsert += len(pairs_for_upsert)
UpsertStep(r, ok) ==
  IF ok THEN [r EXCEPT !.total_upsert = @ + Len(r.pairs)] ELSE r

\* A request that has arrived and has not been answered
InFlight(r) == r.pc \notin {"idle", "done"}

OthersInFlight(p) == \E q \in DOMAIN rb \ {p} : InFlight(rb[q])

\* remove_vectors over the ids mirrored now, after the mirror was emptied
RemovedIdsFromMirror(r) == DOMAIN mirror

\* the ids passed to remove_vectors: old_ids
RemovedIds(r) == r.old_ids

\* The batch loop of the text rebuild takes batch r.b up: its embedding call
\* is about to be made for the first time
Attempted(r) ==
  IF r.attempt = 0 THEN [r EXCEPT !.attempted = Append(@, r.b)] ELSE r

\* a failed batch embedding after which the same batch is taken up again
ReattemptBatch(r) ==
  [r EXCEPT !.call = "raised", !.skipped = @ \cup {r.b}, !.attempt = 0,
            !.pc = "embed"]

\* except Exception as ge: log, time.sleep(1.2), continue
SkipBatch(r) ==
  NextBatch([r EXCEPT !.call = "raised", !.skipped = @ \cup {r.b}])

\* a failed remove_vectors that reaches the outer except
RemoveFailedAborts(r) == ErrorResponse(Failed(r, "remove"))

\* except Exception as ve: logger.warning(...): the handler goes on
RemoveFailed(r) == [Failed(r, "remove") EXCEPT !.pc = "enumerate"]

\* A POST to the rebuild endpoint arrives
StartRebuild(p) ==
  LET r == rb[p] IN
  /\ r.pc \in {"idle", "done"}
  /\ r.run < plan.runs
  /\ rb' = [q \in DOMAIN rb |->
       IF q = p
       THEN [FreshRun(r.run + 1) EXCEPT
               !.pc = "snapshot",
               !.startSynced = (index = DOMAIN mirror),
               !.startStale = (r.run >= 1 /\ index \ DOMAIN mirror # {}),
               !.overlapped = OthersInFlight(p)]
       ELSE IF InFlight(rb[q]) THEN [rb[q] EXCEPT !.overlapped = TRUE]
       ELSE rb[q]]
  \* the handler reads only differences of clock values: each request is
  \* timed from its own arrival, unless another one is being timed
  /\ now' = IF OthersInFlight(p) THEN now ELSE 0
  /\ reqLog' = IF OthersInFlight(p) THEN reqLog ELSE <<>>
  /\ UNCHANGED <<codecVars, searchVars, recommendVars>>
  /\ UNCHANGED <<scope, catalog, mirror, index, indexConfigured, faults, plan,
                 departed>>

\* old_ids = the ids of the mirror rows; [] when listing them raises
Snapshot(p) ==
  LET r == rb[p] IN
  /\ r.pc = "snapshot"
  /\ \/ /\ rb' = [rb EXCEPT ![p] =
             [r EXCEPT !.old_ids = DOMAIN mirror, !.pc = "delete_mirror"]]
        /\ UNCHANGED faults
     \/ /\ CanFault
        /\ faults' = faults + 1
        /\ rb' = [rb EXCEPT ![p] =
             [Failed(r, "list") EXCEPT !.old_ids = {}, !.pc = "delete_mirror"]]
  /\ UNCHANGED <<codecVars, searchVars, recommendVars>>
  /\ UNCHANGED <<scope, catalog, mirror, index, indexConfigured, now, reqLog,
                 plan, departed>>

\* embeddings_col.delete_many({}), outside any inner try
DeleteMirror(p) ==
  LET r == rb[p] IN
  /\ r.pc = "delete_mirror"
  /\ \/ /\ mirror' = NoRows
        /\ rb' = [rb EXCEPT ![p] = [r EXCEPT !.pc = "remove"]]
        /\ UNCHANGED faults
     \/ /\ CanFault
        /\ faults' = faults + 1
        /\ rb' = [rb EXCEPT ![p] = ErrorResponse(Failed(r, "delete_mirror"))]
        /\ UNCHANGED mirror
  /\ UNCHANGED <<codecVars, searchVars, recommendVars>>
  /\ UNCHANGED <<scope, catalog, index, indexConfigured, now, reqLog, plan,
                 departed>>

\* if old_ids: try: remove_vectors(old_ids) except: log
RemoveOld(p) ==
  LET r == rb[p] IN
  /\ r.pc = "remove"
  /\ IF r.old_ids = {}
     THEN /\ rb' = [rb EXCEPT ![p] = [r EXCEPT !.pc = "enumerate"]]
          /\ UNCHANGED <<index, faults>>
     ELSE IF ~indexConfigured
     THEN /\ rb' = [rb EXCEPT ![p] =
               [Failed(r, "config") EXCEPT !.pc = "enumerate"]]
          /\ UNCHANGED <<index, faults>>
     ELSE \/ /\ index' = index \ RemovedIds(r)
             /\ rb' = [rb EXCEPT ![p] = [r EXCEPT !.pc = "enumerate"]]
             /\ UNCHANGED faults
          \/ /\ CanFault
             /\ faults' = faults + 1
             /\ rb' = [rb EXCEPT ![p] = RemoveFailed(r)]
             /\ UNCHANGED index
  /\ UNCHANGED <<codecVars, searchVars, recommendVars>>
  /\ UNCHANGED <<scope, catalog, mirror, indexConfigured, now, reqLog, plan,
                 departed>>

\* products_col.find(...) and the construction of to_embed; the counters
\* and minute_start = time.time() of the image rebuild
Enumerate(p) ==
  LET r == rb[p]
      to_embed == IF scope = "image" THEN ImageItems(catalog)
                  ELSE TextItems(catalog)
      size == IF scope = "image" THEN image_batch_size ELSE text_batch_size
      r2 == [r EXCEPT !.batches = Chunks(to_embed, size),
                      !.enumerated = Len(to_embed),
                      !.request_count = 0, !.minute_start = now]
  IN
  /\ r.pc = "enumerate"
  /\ \/ /\ rb' = [rb EXCEPT ![p] = NextBatch(r2)]
        /\ UNCHANGED faults
     \/ /\ CanFault
        /\ faults' = faults + 1
        /\ rb' = [rb EXCEPT ![p] = ErrorResponse(Failed(r, "enumerate"))]
  /\ UNCHANGED <<codecVars, searchVars, recommendVars>>
  /\ UNCHANGED <<scope, catalog, mirror, index, indexConfigured, now, reqLog,
                 plan, departed>>

\* The head of the image item loop: admission control, then requests.get
\* with its status and size checks
FetchImage(p) ==
  LET r == rb[p]
      ac == AdmissionControl(r, now)
      r2 == [r EXCEPT !.request_count = ac.request_count,
                      !.minute_start = ac.minute_start]
  IN
  /\ scope = "image"
  /\ r.pc = "fetch"
  /\ now' = ac.now
  /\ \/ /\ rb' = [rb EXCEPT ![p] =
             [r2 EXCEPT !.pc = "embed", !.attempt = 0]]
        /\ UNCHANGED faults
     \/ /\ CanFault
        /\ faults' = faults + 1
        /\ \E o \in {"http_status", "too_large", "exception"} :
             rb' = [rb EXCEPT ![p] = DownloadFailed(r2)]
  /\ UNCHANGED <<codecVars, searchVars, recommendVars>>
  /\ UNCHANGED <<scope, catalog, mirror, index, indexConfigured, reqLog, plan,
                 departed>>

\* One invocation of the provider inside _retry, called from
\* create_image_embedding_from_bytes, and what the item loop does with the
\* call's result
EmbedImageAttempt(p) ==
  LET r == rb[p]
      item == r.batches[r.b][r.k]
  IN
  /\ scope = "image"
  /\ r.pc = "embed"
  /\ reqLog' = LogRequest(reqLog, now)
  /\ \E o \in {"vector", "empty", "quota", "error"} :
       LET d == RetryDecision(r.attempt, o)
           called == Called(r, o)
       IN
       /\ (o # "vector") => CanFault
       /\ faults' = faults + (IF o = "vector" THEN 0 ELSE 1)
       /\ CASE d = "retry" ->
                 \E j \in Jitters :
                   /\ now' = now + BackoffSleep(r.attempt, j)
                   /\ rb' = [rb EXCEPT ![p] =
                        [called EXCEPT !.attempt = @ + 1]]
            [] d = "raise" ->
                 /\ now' = now
                 /\ rb' = [rb EXCEPT ![p] = EmbedFailed(called)]
            [] d = "return" /\ o = "vector" ->
                 /\ now' = now + SECONDS_PER_REQUEST
                 /\ rb' = [rb EXCEPT ![p] =
                      AfterItem([called EXCEPT
                                   !.call = "returned",
                                   !.request_count = @ + 1,
                                   !.batch_embeddings = Append(@, item)])]
            [] d = "return" /\ o = "empty" ->
                 /\ now' = now + SECONDS_PER_REQUEST
                 /\ rb' = [rb EXCEPT ![p] =
                      AfterItem([called EXCEPT
                                   !.call = "returned",
                                   !.request_count = @ + 1,
                                   !.failed_count = @ + 1])]
  /\ UNCHANGED <<codecVars, searchVars, recommendVars>>
  /\ UNCHANGED <<scope, catalog, mirror, index, indexConfigured, plan, departed>>

\* One invocation of the provider inside _retry, called from
\* create_embeddings_batch, and what the batch loop does with the call's
\* result: docs and pairs of the non-empty embeddings, or the next batch
EmbedTextAttempt(p) ==
  LET r == rb[p]
      batch == r.batches[r.b]
  IN
  /\ scope = "text"
  /\ r.pc = "embed"
  /\ reqLog' = LogRequest(reqLog, now)
  /\ \E o \in {"vector", "empty", "quota", "error"} :
       LET d == RetryDecision(r.attempt, o)
           called == Called(Attempted(r), o)
       IN
       /\ (o # "vector") => CanFault
       /\ faults' = faults + (IF o = "vector" THEN 0 ELSE 1)
       /\ CASE d = "retry" ->
                 \E j \in Jitters :
                   /\ now' = now + BackoffSleep(r.attempt, j)
                   /\ rb' = [rb EXCEPT ![p] =
                        [called EXCEPT !.attempt = @ + 1]]
            [] d = "raise" ->
                 /\ now' = now + TextFailSleep
                 /\ rb' = [rb EXCEPT ![p] = SkipBatch(called)]
            [] d = "return" /\ o = "vector" ->
                 /\ now' = now
                 /\ rb' = [rb EXCEPT ![p] =
                      [called EXCEPT !.call = "returned",
                                     !.batch_embeddings = batch,
                                     !.pairs = Ids(batch),
                                     !.pc = "insert"]]
            [] d = "return" /\ o = "empty" ->
                 \* the first embedding of the answer is empty
                 /\ now' = now
                 /\ rb' = [rb EXCEPT ![p] =
                      [called EXCEPT
                         !.call = "returned",
                         !.batch_embeddings = Tail(batch),
                         !.pairs = Ids(Tail(batch)),
                         !.pc = "insert"]]
  /\ UNCHANGED <<codecVars, searchVars, recommendVars>>
  /\ UNCHANGED <<scope, catalog, mirror, index, indexConfigured, plan, departed>>

\* insert_many(docs, ordered=False): inside try/except in the image rebuild,
\* unguarded in the text rebuild
InsertMirror(p) ==
  LET r == rb[p]
      n == Len(r.pairs)
  IN
  /\ r.pc = "insert"
  /\ IF n = 0
     THEN /\ rb' = [rb EXCEPT ![p] = [r EXCEPT !.pc = "upsert"]]
          /\ UNCHANGED <<mirror, faults>>
     ELSE \/ /\ mirror' = InsertRows(mirror, r.pairs, 1..n)
             /\ rb' = [rb EXCEPT ![p] = [r EXCEPT !.pc = "upsert"]]
             /\ UNCHANGED faults
          \/ /\ CanFault
             /\ faults' = faults + 1
             /\ \E inserted \in PartialInserts(n) :
                  mirror' = InsertRows(mirror, r.pairs, inserted)
             /\ rb' = [rb EXCEPT ![p] =
                  IF scope = "image"
                  THEN [Failed(r, "insert") EXCEPT !.pc = "upsert"]
                  ELSE ErrorResponse(Failed(r, "insert"))]
  /\ UNCHANGED <<codecVars, searchVars, recommendVars>>
  /\ UNCHANGED <<scope, catalog, index, indexConfigured, now, reqLog, plan,
                 departed>>

\* if pairs_for_upsert: try: upsert; count except: log.  The text rebuild
\* then sleeps 0.8 s before its next batch.
UpsertVectors(p) ==
  LET r == rb[p]
      n == Len(r.pairs)
      Done(r2, ok) ==
        NextBatch([r2 EXCEPT !.upserted_ok = @ + (IF ok THEN n ELSE 0),
                             !.lost = @ + (IF ok THEN 0 ELSE n)])
  IN
  /\ r.pc = "upsert"
  /\ now' = now + (IF scope = "text" THEN TextBatchSleep ELSE 0)
  /\ IF n = 0
     THEN /\ rb' = [rb EXCEPT ![p] = NextBatch(r)]
          /\ UNCHANGED <<index, faults>>
     ELSE IF ~indexConfigured
     THEN /\ rb' = [rb EXCEPT ![p] =
               Done(UpsertStep(Failed(r, "config"), FALSE), FALSE)]
          /\ UNCHANGED <<index, faults>>
     ELSE \/ /\ index' = index \cup Range(r.pairs)
             /\ rb' = [rb EXCEPT ![p] = Done(UpsertStep(r, TRUE), TRUE)]
             /\ UNCHANGED faults
          \/ /\ CanFault
             /\ faults' = faults + 1
             /\ rb' = [rb EXCEPT ![p] =
                  Done(UpsertStep(Failed(r, "upsert"), FALSE), FALSE)]
             /\ UNCHANGED index
  /\ UNCHANGED <<codecVars, searchVars, recommendVars>>
  /\ UNCHANGED <<scope, catalog, mirror, indexConfigured, reqLog, plan,
                 departed>>

\* return jsonify({"success": True, ...}), 200
Respond(p) ==
  LET r == rb[p] IN
  /\ r.pc = "return"
  /\ rb' = [rb EXCEPT ![p] = [r EXCEPT !.pc = "done", !.response = "success"]]
  /\ UNCHANGED <<codecVars, searchVars, recommendVars>>
  /\ UNCHANGED <<scope, catalog, mirror, index, indexConfigured, now, reqLog,
                 faults, plan, departed>>

\* Upstream catalog management removes a product.  The rebuild reads the
\* catalog once, in Enumerate, so a removal at any other moment acts as one
\* between two rebuilds.
LeaveCatalog ==
  /\ \A p \in DOMAIN rb : rb[p].pc = "done" /\ rb[p].run < plan.runs
  /\ Cardinality(departed) < MaxDepartures
  /\ \E i \in {1, Len(catalog)} \cap DOMAIN catalog :
       /\ catalog' = SubSeq(catalog, 1, i - 1)
                        \o SubSeq(catalog, i + 1, Len(catalog))
       /\ departed' = departed \cup {catalog[i].pid}
  /\ UNCHANGED <<codecVars, searchVars, recommendVars>>
  /\ UNCHANGED <<scope, mirror, index, indexConfigured, now, reqLog, faults,
                 plan, rb>>

CommonSteps(p) ==
  \/ StartRebuild(p)
  \/ Snapshot(p)
  \/ DeleteMirror(p)
  \/ RemoveOld(p)
  \/ Enumerate(p)
  \/ InsertMirror(p)
  \/ UpsertVectors(p)
  \/ Respond(p)

RebuildInitFor(procs, scopes, smallOnly, budget, runs) ==
  /\ scope \in scopes
  /\ catalog \in {c \in Catalogs(scope) :
                    smallOnly => Len(ImageItems(c)) < image_batch_size}
  /\ mirror = NoRows
  /\ index = {}
  /\ indexConfigured \in BOOLEAN
  /\ now = 0
  /\ reqLog = <<>>
  /\ faults = 0
  /\ plan = [budget |-> budget, runs |-> runs]
  /\ departed = {}
  /\ rb = [p \in procs |-> FreshRun(0)]
  /\ CodecIdle
  /\ SearchIdle
  /\ RecommendIdle

RebuildInit(scopes, smallOnly, budget, runs) ==
  RebuildInitFor(SeqProcs, scopes, smallOnly, budget, runs)

Init == RebuildInit({"text", "image"}, FALSE, MaxFaults, MaxRuns)

Next ==
  \/ \E p \in SeqProcs :
       CommonSteps(p) \/ FetchImage(p) \/ EmbedImageAttempt(p)
         \/ EmbedTextAttempt(p)
  \/ LeaveCatalog

Spec == Init /\ [][Next]_vars

----------------------------------------------------------------------------
(* One image rebuild under a provider that keeps failing *)

\* catalogs of a single batch
QuotaInit == RebuildInit({"image"}, TRUE, QuotaFaults, 1)

QuotaNext ==
  \E p \in SeqProcs :
    CommonSteps(p) \/ FetchImage(p) \/ EmbedImageAttempt(p)

SpecQuota == QuotaInit /\ [][QuotaNext]_vars

----------------------------------------------------------------------------
(* Two rebuild requests of one scope, no collaborator failure *)

ConcProcs == {"r1", "r2"}

ConcurrentInit == RebuildInitFor(ConcProcs, {"text", "image"}, FALSE, 0, 1)

ConcurrentNext ==
  \E p \in ConcProcs :
    CommonSteps(p) \/ FetchImage(p) \/ EmbedImageAttempt(p)
      \/ EmbedTextAttempt(p)

SpecConcurrent == ConcurrentInit /\ [][ConcurrentNext]_vars

----------------------------------------------------------------------------
(* One image rebuild of a catalog with more images than one window admits *)

WindowCatalog ==
  <<Product(<<"a">>, [i \in 1..(REQUESTS_PER_MINUTE + 1) |-> Img(TRUE, i)])>>

WindowInit ==
  /\ scope = "image"
  /\ catalog = WindowCatalog
  /\ mirror = NoRows
  /\ index = {}
  /\ indexConfigured \in BOOLEAN
  /\ now = 0
  /\ reqLog = <<>>
  /\ faults = 0
  /\ plan = [budget |-> MaxFaults, runs |-> 1]
  /\ departed = {}
  /\ rb = [p \in SeqProcs |-> FreshRun(0)]
  /\ CodecIdle
  /\ SearchIdle
  /\ RecommendIdle

WindowNext ==
  \E p \in SeqProcs :
    CommonSteps(p) \/ FetchImage(p) \/ EmbedImageAttempt(p)

SpecWindow == WindowInit /\ [][WindowNext]_vars

----------------------------------------------------------------------------
(* Text rebuilds alone.  The handler is a sequential program whose sleeps   *)
(* are finite, so a step that can be taken is taken.                        *)

TextInit == RebuildInit({"text"}, FALSE, MaxFaults, MaxRuns)

TextNext == \E p \in SeqProcs : CommonSteps(p) \/ EmbedTextAttempt(p)

SpecText == TextInit /\ [][TextNext]_vars /\ WF_vars(TextNext)


----------------------------------------------------------------------------
(* Properties of the rebuilds *)

Succeeded(r) == r.response = "success"

\* A run in which no collaborator call failed and the index is configured
CleanRun(r) == r.kinds = {}

\* The number of logged provider requests in the 60 seconds from t
RequestsFrom(log, t) ==
  Cardinality({j \in DOMAIN log : log[j] >= t /\ log[j] < t + Window})

\* Mirror and Vector Index in 1:1 correspondence
OneToOne == index = DOMAIN mirror /\ \A id \in DOMAIN mirror : mirror[id] = 1

\* C1: during an image rebuild no rolling 60-second window holds more than
\* REQUESTS_PER_MINUTE embedding-provider requests, whatever the items'
\* outcomes are.
C1_RateCeiling ==
  scope = "image" =>
    \A i \in DOMAIN reqLog :
      RequestsFrom(reqLog, reqLog[i]) <= REQUESTS_PER_MINUTE

\* C2: a rebuild in which no step fails, started with the Vector Index
\* holding exactly the mirrored ids, ends with mirror and Vector Index in
\* 1:1 correspondence.
C2_OneToOneAfterRebuild ==
  \A p \in DOMAIN rb :
    (Succeeded(rb[p]) /\ CleanRun(rb[p]) /\ rb[p].startSynced) => OneToOne

\* C3: a rebuild in which no step fails, started after an earlier rebuild
\* left a datapoint without a mirror row in the Vector Index, ends with no
\* such datapoint.
C3_SelfHealing ==
  \A p \in DOMAIN rb :
    (Succeeded(rb[p]) /\ CleanRun(rb[p]) /\ rb[p].startStale)
      => index \subseteq DOMAIN mirror

\* C4: a rebuild answers with an error only when it could not delete the
\* mirror rows or read the catalog; a failed embedding, mirror insert, Vector
\* Index delete or upsert never makes it answer with an error.
C4_PartialFailuresSucceed ==
  \A p \in DOMAIN rb :
    rb[p].response = "error" =>
      rb[p].kinds \cap {"delete_mirror", "enumerate"} # {}

\* C5: a rebuild whose Vector Index calls raised the missing-index
\* configuration error does not answer with a success result.
C5_ConfigErrorReported ==
  \A p \in DOMAIN rb : Succeeded(rb[p]) => "config" \notin rb[p].kinds

\* C6: the count a rebuild returns is the number of pairs passed to the
\* Vector Index upsert calls that returned successfully.
C6_UpsertedCount ==
  \A p \in DOMAIN rb :
    Succeeded(rb[p]) => rb[p].total_upsert = rb[p].upserted_ok

\* a rebuild that returned a non-zero count after one of its upserts failed
C6_Witness ==
  \E p \in DOMAIN rb :
    /\ Succeeded(rb[p])
    /\ "upsert" \in rb[p].kinds
    /\ rb[p].total_upsert > 0

AllQuota(s) == \A i \in DOMAIN s : s[i] = "quota"

\* C7: a provider call under _retry invokes the operation at most
\* max_retries + 1 times; it returns the first successful result; it raises
\* a quota failure only as the failure of the last permitted attempt; while
\* it has neither returned nor raised, its next attempt is due.
C7_BoundedRetry ==
  \A p \in DOMAIN rb :
    LET r == rb[p]
        n == Len(r.outcomes)
    IN /\ n <= max_retries + 1
       /\ n > 0 => AllQuota(SubSeq(r.outcomes, 1, n - 1))
       /\ r.pc = "embed" =>
            /\ r.attempt <= max_retries
            /\ r.attempt > 0 => (n = r.attempt /\ AllQuota(r.outcomes))
            /\ ENABLED EmbedImageAttempt(p)
       /\ r.call = "returned" => r.outcomes[n] \in {"vector", "empty"}
       /\ r.call = "raised" =>
            /\ r.outcomes[n] \in {"quota", "error"}
            /\ r.outcomes[n] = "quota" => n = max_retries + 1

\* a provider call that raised after every permitted attempt met the quota
C7_Witness ==
  \E p \in DOMAIN rb :
    /\ rb[p].call = "raised"
    /\ Len(rb[p].outcomes) = max_retries + 1
    /\ AllQuota(rb[p].outcomes)

----------------------------------------------------------------------------
(* The datapoint codec: f"{pid}_{position}" and rsplit("_", 1) *)

MaxEntityLen == 2   \* characters of an entity id
MaxPosition == 2    \* the small positions; 10 and 999 are always tried

EntityChars == {"a", "b", "_"}

EntityIds == UNION {[1..n -> EntityChars] : n \in 0..MaxEntityLen}

Positions == (0..MaxPosition) \cup {10, DEFAULT_POSITION}

CodecInit ==
  /\ cd \in [pc : {"start"}, entity : EntityIds, position : Positions,
             id : {<<>>}, parts : {<<>>}]
  /\ RebuildIdle
  /\ SearchIdle
  /\ RecommendIdle

\* datapoint_id = f"{pid}_{position}"
CodecEncode ==
  /\ cd.pc = "start"
  /\ cd' = [cd EXCEPT !.id = DatapointId(cd.entity, cd.position),
                      !.pc = "encoded"]
  /\ UNCHANGED <<rebuildVars, searchVars, recommendVars>>

\* parts = datapoint_id.rsplit("_", 1)
CodecDecode ==
  /\ cd.pc = "encoded"
  /\ cd' = [cd EXCEPT !.parts = RSplit(cd.id), !.pc = "decoded"]
  /\ UNCHANGED <<rebuildVars, searchVars, recommendVars>>

CodecNext == CodecEncode \/ CodecDecode

SpecCodec == CodecInit /\ [][CodecNext]_vars

\* int(s) of a string of decimal digits
RECURSIVE DecimalValue(_)
DecimalValue(s) ==
  IF s = <<>> THEN 0
  ELSE 10 * DecimalValue(SubSeq(s, 1, Len(s) - 1))
         + (CHOOSE d \in 0..9 : DigitChar(d) = s[Len(s)])

\* C8: for an entity id without underscore and a non-negative position,
\* splitting the encoded id at its last underscore yields the entity id and
\* the position.
C8_RoundTrip ==
  (cd.pc = "decoded" /\ "_" \notin Range(cd.entity) /\ cd.position >= 0) =>
    /\ Len(cd.parts) = 2
    /\ cd.parts[1] = cd.entity
    /\ cd.parts[2] = Str(cd.position)
    /\ DecimalValue(cd.parts[2]) = cd.position

\* a two-character entity id with a two-digit position, decoded
C8_Witness ==
  /\ cd.pc = "decoded"
  /\ cd.entity = <<"a", "b">>
  /\ cd.position = 10
  /\ cd.parts = <<<<"a", "b">>, <<"1", "0">>>>

----------------------------------------------------------------------------
(* The multi-image search: search_by_image_multi *)

MaxNeighbors == 3   \* neighbors the Vector Index returns in SpecAggregate
MaxCosSteps == 1    \* cosines tried: multiples of 2 units up to this many
MaxTopK == 1        \* top_k values requested: -MaxTopK..MaxTopK

Max(a, b) == IF a >= b THEN a ELSE b

\* ord(c) of the characters ids are made of
Ord(c) ==
  CASE c = "-" -> 45
    [] c = "_" -> 95
    [] c = "a" -> 97
    [] c = "b" -> 98
    [] OTHER -> 48 + (CHOOSE d \in 0..9 : DigitChar(d) = c)

\* s < t on Python strings
RECURSIVE StrLess(_, _)
StrLess(s, t) ==
  IF t = <<>> THEN FALSE
  ELSE IF s = <<>> THEN TRUE
  ELSE IF Ord(Head(s)) # Ord(Head(t)) THEN Ord(Head(s)) < Ord(Head(t))
  ELSE StrLess(Tail(s), Tail(t))

\* sorted(s, key=...): the stable sort; less[i, j] says that the key of
\* s[i] is smaller than the key of s[j]
StableSort(s, less) ==
  LET rank(i) ==
        Cardinality({j \in DOMAIN s :
                       less[j, i] \/ (j < i /\ ~less[i, j])}) + 1
  IN [k \in DOMAIN s |-> s[CHOOSE i \in DOMAIN s : rank(i) = k]]

\* key=lambda x: (x[1], x[0])
NeighborLess(x, y) ==
  x.dist < y.dist \/ (x.dist = y.dist /\ StrLess(x.id, y.id))

\* the neighbors in the order the Vector Index returned them
UnsortedNeighbors(ns) == ns

\* neighbors = sorted(..., key=lambda x: (x[1], x[0]))
SortedNeighbors(ns) ==
  StableSort(ns, [i \in DOMAIN ns, j \in DOMAIN ns |->
                    NeighborLess(ns[i], ns[j])])

\* the loop that fills candidate_product_ids and seen
RECURSIVE GroupCandidates(_, _)
GroupCandidates(ns, acc) ==
  IF ns = <<>> THEN acc
  ELSE LET parts == RSplit(Head(ns).id) IN
       IF Len(parts) # 2 THEN GroupCandidates(Tail(ns), acc)
       ELSE IF parts[1] \in Range(acc) THEN GroupCandidates(Tail(ns), acc)
       ELSE GroupCandidates(Tail(ns), Append(acc, parts[1]))

(* IEEE-754 doubles next to 1.0.  A cosine c stands for c * 2^-54; the      *)
(* double 1 + o * 2^-54 is written as its offset o.  Doubles in [1, 2) are   *)
(* the offsets that are multiples of 4, doubles in [1/2, 1) the negative     *)
(* offsets that are multiples of 2; a sum is rounded to the nearest double,  *)
(* ties to the even mantissa.                                                *)
RoundEven(o, step) ==
  LET q == o \div step
      r == o % step
  IN IF 2 * r < step THEN step * q
     ELSE IF 2 * r > step THEN step * (q + 1)
     ELSE IF q % 2 = 0 THEN step * q
     ELSE step * (q + 1)

\* the double nearest to 1 + o * 2^-54
Fl1(o) == IF o >= 0 THEN RoundEven(o, 4) ELSE RoundEven(o, 2)

\* similarity = (cos + 1.0) / 2.0, as the offset of its double (halving is exact)
Similarity(cos) == Fl1(cos)

\* distance = 1.0 - cos, as the offset of its double
Distance(cos) == Fl1(0 - cos)

\* cand = {"similarity": ..., "distance": ..., "datapoint_id": ...}
Candidate(doc) ==
  [similarity |-> Similarity(doc.cos), distance |-> Distance(doc.cos),
   position |-> doc.position, datapoint_id |-> doc.datapoint_id]

\* the condition under which cand replaces best
Replaces(cand, best) ==
  \/ cand.similarity > best.similarity
  \/ /\ cand.similarity = best.similarity
     /\ \/ cand.distance < best.distance
        \/ StrLess(cand.datapoint_id, best.datapoint_id)

\* for doc in cursor: the best candidate; <<>> stands for None
RECURSIVE BestOf(_, _)
BestOf(docs, best) ==
  IF docs = <<>> THEN best
  ELSE LET doc == Head(docs) IN
       IF ~doc.emb THEN BestOf(Tail(docs), best)
       ELSE LET cand == Candidate(doc) IN
            IF best = <<>> \/ Replaces(cand, best[1])
            THEN BestOf(Tail(docs), <<cand>>)
            ELSE BestOf(Tail(docs), best)

\* find({"product_id": pid}).sort("position", 1).limit(per_product_rerank)
Cursor(pid, per) ==
  IF pid \in DOMAIN sDocs
  THEN SubSeq(sDocs[pid], 1, Min(per, Len(sDocs[pid])))
  ELSE <<>>

\* product_scores, in insertion order
RECURSIVE Rerank(_, _)
Rerank(pids, per) ==
  IF pids = <<>> THEN <<>>
  ELSE LET best == BestOf(Cursor(Head(pids), per), <<>>) IN
       (IF best = <<>> THEN <<>>
        ELSE <<[pid |-> Head(pids), info |-> best[1]]>>)
         \o Rerank(Tail(pids), per)

\* key=lambda x: (-x[1]["similarity"], x[1]["distance"])
ScoreLessNoId(x, y) ==
  \/ x.info.similarity > y.info.similarity
  \/ /\ x.info.similarity = y.info.similarity
     /\ x.info.distance < y.info.distance

\* key=lambda x: (-x[1]["similarity"], x[1]["distance"], x[1]["datapoint_id"])
ScoreLess(x, y) ==
  \/ x.info.similarity > y.info.similarity
  \/ /\ x.info.similarity = y.info.similarity
     /\ \/ x.info.distance < y.info.distance
        \/ /\ x.info.distance = y.info.distance
           /\ StrLess(x.info.datapoint_id, y.info.datapoint_id)

\* s[:k]
Prefix(s, k) ==
  IF k >= 0 THEN SubSeq(s, 1, Min(k, Len(s)))
  ELSE SubSeq(s, 1, Max(Len(s) + k, 0))

\* filtered, sorted_products and the results of the products that exist
Ranked(scores, min_similarity, top_k) ==
  LET filtered == SelectSeq(scores,
                            LAMBDA x : x.info.similarity >= min_similarity)
  IN Prefix(StableSort(filtered,
                       [i \in DOMAIN filtered, j \in DOMAIN filtered |->
                          ScoreLess(filtered[i], filtered[j])]),
            top_k)

Neighbor(id, dist) == [id |-> id, dist |-> dist]

Doc(pid, position, cos, emb) ==
  [datapoint_id |-> DatapointId(pid, position), position |-> position,
   cos |-> cos, emb |-> emb]

FreshSearch ==
  [pc |-> "start", neighbors |-> <<>>, candidates |-> <<>>, scores |-> <<>>,
   results |-> <<>>]

\* neighbors = find_image_neighbors(...); if not neighbors: return; sort
SearchSort ==
  /\ sr.pc = "start"
  /\ sr' = IF sq.neighbors = <<>>
           THEN [sr EXCEPT !.pc = "done"]
           ELSE [sr EXCEPT !.neighbors = SortedNeighbors(sq.neighbors),
                           !.pc = "sorted"]
  /\ UNCHANGED <<rebuildVars, codecVars, sq, sDocs, sProducts, recommendVars>>

\* candidate_product_ids; if not candidate_product_ids: return
SearchGroup ==
  /\ sr.pc = "sorted"
  /\ LET c == GroupCandidates(sr.neighbors, <<>>) IN
     sr' = [sr EXCEPT !.candidates = c,
                      !.pc = IF c = <<>> THEN "done" ELSE "grouped"]
  /\ UNCHANGED <<rebuildVars, codecVars, sq, sDocs, sProducts, recommendVars>>

\* product_scores; if not product_scores: return
SearchRerank ==
  /\ sr.pc = "grouped"
  /\ LET sc == Rerank(sr.candidates, sq.per_product_rerank) IN
     sr' = [sr EXCEPT !.scores = sc,
                      !.pc = IF sc = <<>> THEN "done" ELSE "reranked"]
  /\ UNCHANGED <<rebuildVars, codecVars, sq, sDocs, sProducts, recommendVars>>

\* filter, sort, truncate, join with the products collection, answer
SearchRespond ==
  /\ sr.pc = "reranked"
  /\ sr' = [sr EXCEPT
       !.results = SelectSeq(Ranked(sr.scores, sq.min_similarity, sq.top_k),
                             LAMBDA x : x.pid \in sProducts),
       !.pc = "done"]
  /\ UNCHANGED <<rebuildVars, codecVars, sq, sDocs, sProducts, recommendVars>>

SearchNext == SearchSort \/ SearchGroup \/ SearchRerank \/ SearchRespond

\* The sequences of at most n neighbors with distinct ids
NeighborLists(ids, dists, n) ==
  {ns \in UNION {[1..k -> [id : ids, dist : dists]] : k \in 0..n} :
     \A i, j \in DOMAIN ns : i # j => ns[i].id # ns[j].id}

\* min_similarity = 0.0, the default: below every similarity next to 1/2
NoThreshold == 0 - 1000

\* A request field: absent, not a number, or an integer
Field(kind, v) == [kind |-> kind, v |-> v]

default_top_k == 5
default_per_product_rerank == 8
max_per_product_rerank == 16

\* try: final_top_k = int(data.get("top_k", 5)); except: final_top_k = 5
ParseTopK(f) == IF f.kind = "int" THEN f.v ELSE default_top_k

\* per_product_rerank = max(1, min(int(...), 16)), 8 when absent or not a number
ParseRerank(f) ==
  IF f.kind = "int" THEN Max(1, Min(f.v, max_per_product_rerank))
  ELSE default_per_product_rerank

----------------------------------------------------------------------------
(* The candidate aggregation over any neighbor list *)

AggregateIds ==
  {DatapointId(<<"a">>, 1), DatapointId(<<"a">>, 2), DatapointId(<<"b">>, 1),
   <<"a", "b">>}

AggregateDocs ==
  [pid \in {<<"a">>, <<"b">>} |->
     IF pid = <<"a">> THEN <<Doc(pid, 1, 0, TRUE), Doc(pid, 2, 0, TRUE)>>
     ELSE <<Doc(pid, 1, 0, TRUE)>>]

AggregateInit ==
  /\ sq \in [neighbors : NeighborLists(AggregateIds, 1..3, MaxNeighbors),
             per_product_rerank : {8}, top_k : {5},
             min_similarity : {NoThreshold}]
  /\ sDocs = AggregateDocs
  /\ sProducts = {<<"a">>, <<"b">>}
  /\ sr = FreshSearch
  /\ RebuildIdle
  /\ CodecIdle
  /\ RecommendIdle

SpecAggregate == AggregateInit /\ [][SearchNext]_vars

Decodable(ns) == {i \in DOMAIN ns : Len(RSplit(ns[i].id)) = 2}

\* The distance of the nearest datapoint of entity pid among the neighbors ns
NearestDist(ns, pid) ==
  LET ds == {ns[i].dist : i \in {j \in Decodable(ns) : RSplit(ns[j].id)[1] = pid}}
  IN CHOOSE d \in ds : \A e \in ds : d <= e

Grouped == sr.pc \in {"grouped", "reranked"} \/ (sr.pc = "done" /\ sr.candidates # <<>>)

\* C9: the candidate list holds each decodable entity id of the neighbor
\* list exactly once, in the order of the entities' nearest datapoints;
\* undecodable ids are dropped; [(a_1, 1), (b_1, 3), (a_2, 2)] gives [a, b].
C9_Aggregation ==
  Grouped =>
    LET c == sr.candidates
        ns == sq.neighbors
    IN /\ \A i, j \in DOMAIN c : i # j => c[i] # c[j]
       /\ Range(c) = {RSplit(ns[i].id)[1] : i \in Decodable(ns)}
       /\ \A i, j \in DOMAIN c :
            i < j => NearestDist(ns, c[i]) <= NearestDist(ns, c[j])
       /\ ns = <<Neighbor(DatapointId(<<"a">>, 1), 1),
                 Neighbor(DatapointId(<<"b">>, 1), 3),
                 Neighbor(DatapointId(<<"a">>, 2), 2)>>
            => c = <<<<"a">>, <<"b">>>>

\* the farther entity was returned first, next to an undecodable id
C9_Witness ==
  /\ Grouped
  /\ sq.neighbors = <<Neighbor(DatapointId(<<"b">>, 1), 3),
                      Neighbor(<<"a", "b">>, 1),
                      Neighbor(DatapointId(<<"a">>, 2), 2)>>
  /\ sr.candidates = <<<<"a">>, <<"b">>>>

----------------------------------------------------------------------------
(* The re-ranker over any mirror contents *)

RerankIds ==
  {DatapointId(<<"a">>, 9), DatapointId(<<"a">>, 10), DatapointId(<<"b">>, 9)}

CosValues == {2 * k : k \in (0 - MaxCosSteps)..MaxCosSteps}

\* The documents a position can hold: none, or one with a cosine in cs to
\* the query
DocChoices(pid, position, cs) ==
  {<<>>} \cup {<<Doc(pid, position, c, TRUE)>> : c \in cs}

\* Mirrors in cursor order: the documents of a product by ascending position;
\* the document at position 10 of product a can lack its embedding
RerankDocs ==
  {[pid \in {<<"a">>, <<"b">>} |->
      IF pid = <<"a">> THEN a9 \o a10 ELSE b9] :
     a9 \in DocChoices(<<"a">>, 9, CosValues),
     a10 \in DocChoices(<<"a">>, 10, CosValues)
               \cup {<<Doc(<<"a">>, 10, 0, FALSE)>>},
     b9 \in DocChoices(<<"b">>, 9, {c \in CosValues : c >= 0})}

\* top_k as requests send it
TopKFields ==
  {Field("absent", 0), Field("junk", 0)}
    \cup {Field("int", k) : k \in (0 - MaxTopK)..MaxTopK}

\* per_product_rerank as requests send it
RerankFields == {Field("absent", 0), Field("int", 0)}

RerankInit ==
  /\ sq \in [neighbors : NeighborLists(RerankIds, {1, 2}, 2),
             per_product_rerank : {ParseRerank(f) : f \in RerankFields},
             top_k : {ParseTopK(f) : f \in TopKFields},
             min_similarity : {NoThreshold, 0}]
  /\ sDocs \in RerankDocs
  /\ sProducts \in {{<<"a">>, <<"b">>}, {<<"b">>}}
  /\ sr = FreshSearch
  /\ RebuildIdle
  /\ CodecIdle
  /\ RecommendIdle

SpecSearch == RerankInit /\ [][SearchNext]_vars

\* x comes before y: higher similarity, then lower distance, then smaller id
Precedes(x, y) ==
  \/ x.similarity > y.similarity
  \/ /\ x.similarity = y.similarity
     /\ \/ x.distance < y.distance
        \/ /\ x.distance = y.distance
           /\ StrLess(x.datapoint_id, y.datapoint_id)

\* The candidates of the documents the re-ranker examines for pid
Examined(pid) ==
  LET docs == SelectSeq(Cursor(pid, sq.per_product_rerank), LAMBDA x : x.emb)
  IN {Candidate(docs[i]) : i \in DOMAIN docs}

\* C10: the record the re-ranker keeps for an entity is the first of its
\* examined records under (higher similarity, lower distance, smaller id).
C10_BestPerEntity ==
  \A i \in DOMAIN sr.scores :
    \A x \in Examined(sr.scores[i].pid) : ~Precedes(x, sr.scores[i].info)

\* The orders in which the Vector Index can return the neighbors ns
Reorderings(ns) ==
  {[i \in DOMAIN ns |-> ns[f[i]]] :
     f \in {g \in [DOMAIN ns -> DOMAIN ns] :
              \A i, j \in DOMAIN ns : i # j => g[i] # g[j]}}

\* The result list of a run of the search on the neighbors ns
SearchResults(ns) ==
  LET c == GroupCandidates(SortedNeighbors(ns), <<>>)
      sc == Rerank(c, sq.per_product_rerank)
  IN SelectSeq(Ranked(sc, sq.min_similarity, sq.top_k),
               LAMBDA x : x.pid \in sProducts)

SameOrderAnyRun ==
  sr.pc = "done" =>
    \A ns \in Reorderings(sq.neighbors) : SearchResults(ns) = sr.results

\* C11 as stated: every run on the same neighbors, in whatever order, gives
\* the same result list, and two results that tie in similarity are in
\* ascending order of datapoint id.
C11_TieById ==
  /\ SameOrderAnyRun
  /\ \A i, j \in DOMAIN sr.results :
       (i < j /\ sr.results[i].info.similarity = sr.results[j].info.similarity)
         => StrLess(sr.results[i].info.datapoint_id,
                    sr.results[j].info.datapoint_id)

\* C11, amended: every run on the same neighbors, in whatever order, gives
\* the same result list; two results that tie in similarity are in ascending
\* order of distance, and in ascending order of datapoint id when the
\* distances tie as well.
C11_Determinism ==
  /\ SameOrderAnyRun
  /\ \A i, j \in DOMAIN sr.results :
       (i < j /\ sr.results[i].info.similarity = sr.results[j].info.similarity)
         => \/ sr.results[i].info.distance < sr.results[j].info.distance
            \/ /\ sr.results[i].info.distance = sr.results[j].info.distance
               /\ StrLess(sr.results[i].info.datapoint_id,
                          sr.results[j].info.datapoint_id)

\* two entities tie in similarity and distance; the Vector Index returned the
\* nearer one second, and the results are in id order, against the order of
\* the candidates
C11_Witness ==
  /\ sr.pc = "done"
  /\ sq.neighbors = <<Neighbor(DatapointId(<<"a">>, 9), 2),
                      Neighbor(DatapointId(<<"b">>, 9), 1)>>
  /\ sr.candidates = <<<<"b">>, <<"a">>>>
  /\ Len(sr.results) = 2
  /\ sr.results[1].pid = <<"a">>
  /\ sr.results[1].info.similarity = sr.results[2].info.similarity
  /\ sr.results[1].info.distance = sr.results[2].info.distance

Sorted(rs) == \A i, j \in DOMAIN rs : i < j => ~ScoreLess(rs[j], rs[i])

\* C12: the result list is ordered by (similarity descending, distance
\* ascending, datapoint id ascending), holds no entity below min_similarity
\* and, when it is not empty, has at most top_k entries.
C12_ResultContract ==
  (sr.pc = "done" /\ sr.results # <<>>) =>
    /\ Sorted(sr.results)
    /\ \A i \in DOMAIN sr.results :
         sr.results[i].info.similarity >= sq.min_similarity
    /\ Len(sr.results) <= sq.top_k

----------------------------------------------------------------------------
(* The recommender: recommend_for_user and its helpers.  Weights are whole  *)
(* numbers of 1/1460: the type weights are multiples of 1/2 and the decay   *)
(* factors multiples of 1/730.  Rounding of the products and sums is left   *)
(* out: it is monotone and 0.5 * w is exact, so no bound below is affected. *)

MaxEvents == 3      \* events in the collection when a request arrives
MaxRecNeighbors == 2 \* neighbors the Vector Index returns to recommend

history_limit == 100
profile_size == 10
individual_size == 5
default_recommend_top_k == 20
DaysPerYear == 365

Users == {"u", "v"}

\* an event document without ts
NoTs == 0 - 1

\* datetime.now() of the request, in hours
RequestHour == 24 * 4000

\* the ts of an event written days and hours before the request
Ago(days, hours) == RequestHour - (24 * days + hours)

\* productId 0 stands for a document without productId
EventDoc(user, pid, type, ts) ==
  [userId |-> user, productId |-> pid, type |-> type, ts |-> ts]

\* weights = {"purchase": 3.0, "wishlist": 2.0, "cart": 1.5, "view": 1.0};
\* weights.get(etype, 1.0), doubled
TypeWeight(etype) ==
  CASE etype = "purchase" -> 6
    [] etype = "wishlist" -> 4
    [] etype = "cart" -> 3
    [] etype = "view" -> 2
    [] OTHER -> 2

\* (now - event_time).days
DaysOld(nowHour, ts) == (nowHour - ts) \div 24

\* 1.0 - (days_old / 365), in 1/730
DecayNoFloor(days_old) == 2 * DaysPerYear - 2 * days_old

\* decay = max(0.5, 1.0 - (days_old / 365)), in 1/730
Decay(days_old) == Max(DaysPerYear, 2 * DaysPerYear - 2 * days_old)

\* the weight an event adds to interacted[pid]["weight"]
EventWeight(event, nowHour) ==
  TypeWeight(event.type)
    * (IF event.ts = NoTs THEN 2 * DaysPerYear
       ELSE Decay(DaysOld(nowHour, event.ts)))

\* events_col.find(query).sort("ts", -1).limit(limit); event_types = {} is None
FetchEvents(user_id, event_types, limit) ==
  LET found == SelectSeq(events,
                 LAMBDA e : /\ e.userId = user_id
                            /\ (event_types = {} \/ e.type \in event_types))
  IN Prefix(StableSort(found, [i \in DOMAIN found, j \in DOMAIN found |->
                                 found[i].ts > found[j].ts]),
            limit)

\* a loop in which a later event replaces the weight of its entity
RECURSIVE AccumulateLast(_, _, _)
AccumulateLast(evs, acc, nowHour) ==
  IF evs = <<>> THEN acc
  ELSE LET event == Head(evs)
           pid == event.productId
           w == EventWeight(event, nowHour)
       IN IF pid = 0 THEN AccumulateLast(Tail(evs), acc, nowHour)
          ELSE IF \E k \in DOMAIN acc : acc[k].pid = pid
          THEN AccumulateLast(Tail(evs),
                 [k \in DOMAIN acc |->
                    IF acc[k].pid = pid
                    THEN [acc[k] EXCEPT !.weight = w] ELSE acc[k]],
                 nowHour)
          ELSE AccumulateLast(Tail(evs),
                              Append(acc, [pid |-> pid, weight |-> w]),
                              nowHour)

\* the loop that fills interacted, in first-seen order
RECURSIVE Accumulate(_, _, _)
Accumulate(evs, acc, nowHour) ==
  IF evs = <<>> THEN acc
  ELSE LET event == Head(evs)
           pid == event.productId
           w == EventWeight(event, nowHour)
       IN IF pid = 0 THEN Accumulate(Tail(evs), acc, nowHour)
          ELSE IF \E k \in DOMAIN acc : acc[k].pid = pid
          THEN Accumulate(Tail(evs),
                 [k \in DOMAIN acc |->
                    IF acc[k].pid = pid
                    THEN [acc[k] EXCEPT !.weight = @ + w] ELSE acc[k]],
                 nowHour)
          ELSE Accumulate(Tail(evs),
                          Append(acc, [pid |-> pid, weight |-> w]), nowHour)

\* dict(sorted(result.items(), key=lambda x: x[1], reverse=True))
Interacted(evs, nowHour) ==
  LET acc == Accumulate(evs, <<>>, nowHour)
  IN StableSort(acc, [i \in DOMAIN acc, j \in DOMAIN acc |->
                        acc[i].weight > acc[j].weight])

\* product.get("category") or product.get("categoryId"); "none" when absent
Category(pid) == IF pid % 2 = 1 THEN "c1" ELSE "none"

\* sim_score = max(0, 1.0 - float(dist)), in tenths
SimScore(dist) == Max(0, 10 - dist)

\* a penalty without its cap of one half
PenalisedUncapped(sim, diversity, category_count) ==
  sim * (100 - diversity * category_count)

\* sim_score *= (1.0 - min(0.5, diversity * (category_count * 0.1))), with
\* diversity in tenths; the result is in thousandths
Penalised(sim, diversity, category_count) ==
  sim * (100 - Min(50, diversity * category_count))

\* the loop over the neighbors that fills candidates and seen_categories
RECURSIVE Candidates(_, _, _, _, _, _)
Candidates(ns, acc, seen, exclude_ids, diversity, top_k) ==
  IF ns = <<>> THEN acc
  ELSE LET nid == Head(ns).id
           category == Category(nid)
           penalise == category # "none" /\ diversity > 0
           score == IF penalise
                    THEN Penalised(SimScore(Head(ns).dist), diversity,
                                   seen[category])
                    ELSE SimScore(Head(ns).dist) * 100
           cand == [pid |-> nid, score |-> score, count |-> 1]
           acc2 == IF \E k \in DOMAIN acc : acc[k].pid = nid
                   THEN [k \in DOMAIN acc |->
                           IF acc[k].pid = nid THEN cand ELSE acc[k]]
                   ELSE Append(acc, cand)
           seen2 == IF category # "none"
                    THEN [seen EXCEPT ![category] = @ + 1] ELSE seen
       IN IF nid \in exclude_ids \/ nid \notin rProducts
          THEN Candidates(Tail(ns), acc, seen, exclude_ids, diversity, top_k)
          ELSE IF Len(acc2) >= top_k * 2 THEN acc2
          ELSE Candidates(Tail(ns), acc2, seen2, exclude_ids, diversity, top_k)

\* candidates[nid]["score"] += sim_score * weight; ["count"] += 1
RECURSIVE AddScores(_, _, _, _)
AddScores(ns, acc, exclude_ids, weight) ==
  IF ns = <<>> THEN acc
  ELSE LET nid == Head(ns).id
           add == SimScore(Head(ns).dist) * weight
       IN IF nid \in exclude_ids
          THEN AddScores(Tail(ns), acc, exclude_ids, weight)
          ELSE IF \E k \in DOMAIN acc : acc[k].pid = nid
          THEN AddScores(Tail(ns),
                 [k \in DOMAIN acc |->
                    IF acc[k].pid = nid
                    THEN [acc[k] EXCEPT !.score = @ + add, !.count = @ + 1]
                    ELSE acc[k]],
                 exclude_ids, weight)
          ELSE AddScores(Tail(ns),
                 Append(acc, [pid |-> nid, score |-> add, count |-> 1]),
                 exclude_ids, weight)

\* sorted(candidates.items(), key=lambda x: x[1]["score"], reverse=True)[:top_k]
\* where the score is score / count
TopCandidates(cands, top_k) ==
  Prefix(StableSort(cands, [i \in DOMAIN cands, j \in DOMAIN cands |->
                      cands[i].score * cands[j].count
                        > cands[j].score * cands[i].count]),
         top_k)

Pids(s) == [i \in DOMAIN s |-> s[i].pid]

\* {"$group": {"_id": "$productId", "count": {"$sum": 1}}}
Groups ==
  {[pid |-> p, count |-> Cardinality({i \in DOMAIN events :
                                        events[i].productId = p})] :
     p \in {events[i].productId : i \in DOMAIN events}}

\* the groups without the $sort stage, in descending order of id
UnsortedGroups(ascending) ==
  [k \in 1..Cardinality(Groups) |->
     CHOOSE g \in Groups :
       Cardinality({h \in Groups : h.pid > g.pid}) = k - 1]

\* {"$sort": {"count": -1}}: groups of equal count come in either order of id
SortedGroups(ascending) ==
  LET Before(g, h) ==
        \/ g.count > h.count
        \/ /\ g.count = h.count
           /\ IF ascending THEN g.pid < h.pid ELSE g.pid > h.pid
  IN [k \in 1..Cardinality(Groups) |->
        CHOOSE g \in Groups :
          Cardinality({h \in Groups : Before(h, g)}) = k - 1]

\* the results of _get_popular_products: {"$limit": top_k}, then the products
\* that exist
PopularResults(ascending, top_k) ==
  LET popular == SelectSeq(Prefix(SortedGroups(ascending), top_k),
                           LAMBDA g : g.pid # 0 /\ g.pid \in rProducts)
  IN [i \in DOMAIN popular |->
        [pid |-> popular[i].pid, score |-> popular[i].count, count |-> 1]]

NoResponse == [status |-> 0, strategy |-> "absent", recommendations |-> <<>>]

\* jsonify({"error": ...}), 500
ErrorReply == [status |-> 500, strategy |-> "absent", recommendations |-> <<>>]

\* jsonify({"success": True, ...}), 200; the popular reply has no strategy key
Reply(strategy, recs) ==
  [status |-> 200, strategy |-> strategy, recommendations |-> recs]

Finish(r, ranker, response) ==
  [r EXCEPT !.pc = "done", !.ranker = ranker, !.response = response]

\* top_k = int(request.args.get("top_k", 20))
ParseRecommendTopK(f) ==
  IF f.kind = "int" THEN f.v ELSE default_recommend_top_k

RecommendRequest(user_id, top_k_arg, diversity, event_types) ==
  [pc |-> "start", user_id |-> user_id, top_k_arg |-> top_k_arg,
   diversity |-> diversity, event_types |-> event_types, top_k |-> 0,
   fetched |-> <<>>, interacted |-> <<>>, user_texts |-> <<>>,
   embed |-> "none", i |-> 0, neighbors |-> <<>>, candidates |-> <<>>,
   ranker |-> "none", response |-> NoResponse]

\* the answers find_neighbors can give for k neighbors asked
NeighborAnswers(lists, k) == {ns \in lists : Len(ns) <= Max(k, 0)}

\* parse the request, read the history: _get_user_interacted_products
RecommendProfile ==
  /\ rc.pc = "start"
  /\ IF rc.top_k_arg.kind = "junk"
     THEN rc' = Finish(rc, "none", ErrorReply)
     ELSE LET fetched == FetchEvents(rc.user_id, rc.event_types, history_limit)
              interacted == Interacted(fetched, RequestHour)
          IN rc' = [rc EXCEPT !.top_k = ParseRecommendTopK(rc.top_k_arg),
                              !.fetched = fetched,
                              !.interacted = interacted,
                              !.pc = IF interacted = <<>> THEN "popular"
                                     ELSE "texts"]
  /\ UNCHANGED <<rebuildVars, codecVars, searchVars, events, rProducts, es>>

\* user_texts of the top interacted products that exist
RecommendTexts ==
  /\ rc.pc = "texts"
  /\ LET texts == SelectSeq(Pids(Prefix(rc.interacted, profile_size)),
                            LAMBDA pid : pid \in rProducts)
     IN rc' = [rc EXCEPT !.user_texts = texts,
                         !.pc = IF texts = <<>> THEN "popular" ELSE "embed"]
  /\ UNCHANGED <<rebuildVars, codecVars, searchVars, events, rProducts, es>>

\* user_emb = _vs().create_embedding(user_profile_text, ...)
RecommendEmbed ==
  /\ rc.pc = "embed"
  /\ \E outcome \in {"vector", "empty", "raise"} :
       rc' = IF outcome = "raise"
             THEN [Finish(rc, "none", ErrorReply) EXCEPT !.embed = outcome]
             ELSE [rc EXCEPT !.embed = outcome,
                             !.i = 1,
                             !.pc = IF outcome = "vector" THEN "neighbors"
                                    ELSE "individual"]
  /\ UNCHANGED <<rebuildVars, codecVars, searchVars, events, rProducts, es>>

\* The sequences of at most n neighbors with distinct ids
RecNeighborLists == NeighborLists({1, 2, 3}, {2, 12}, MaxRecNeighbors)

\* neighbors = _vs().find_neighbors(user_emb, k=top_k * 3); candidates; reply
RecommendPersonalized ==
  /\ rc.pc = "neighbors"
  /\ \/ rc' = Finish(rc, "personalized", ErrorReply)
     \/ \E ns \in NeighborAnswers(RecNeighborLists, rc.top_k * 3) :
          LET seen == [c \in {"c1"} |-> 0]
              cands == Candidates(ns, <<>>, seen,
                                  {rc.interacted[k].pid : k \in DOMAIN rc.interacted},
                                  rc.diversity, rc.top_k)
          IN rc' = [Finish(rc, "personalized",
                           Reply("personalized_content_based",
                                 TopCandidates(cands, rc.top_k)))
                      EXCEPT !.neighbors = ns, !.candidates = cands]
  /\ UNCHANGED <<rebuildVars, codecVars, searchVars, events, rProducts, es>>

\* one turn of the loop of _recommend_by_individual_products
RecommendIndividualStep ==
  /\ rc.pc = "individual"
  /\ rc.i <= Len(Prefix(rc.interacted, individual_size))
  /\ LET pid == rc.interacted[rc.i].pid
         weight == rc.interacted[rc.i].weight
         exclude_ids == {rc.interacted[k].pid : k \in DOMAIN rc.interacted}
     IN IF pid \notin rProducts
        THEN rc' = [rc EXCEPT !.i = @ + 1]
        ELSE \/ rc' = [rc EXCEPT !.i = @ + 1]
             \/ rc' = Finish(rc, "aggregated", ErrorReply)
             \/ \E ns \in NeighborAnswers(RecNeighborLists, rc.top_k * 2) :
                  rc' = [rc EXCEPT
                           !.i = @ + 1,
                           !.candidates = AddScores(ns, @, exclude_ids, weight)]
  /\ UNCHANGED <<rebuildVars, codecVars, searchVars, events, rProducts, es>>

\* normalise, sort, truncate, keep the products that exist, reply
RecommendIndividualReply ==
  /\ rc.pc = "individual"
  /\ rc.i > Len(Prefix(rc.interacted, individual_size))
  /\ rc' = Finish(rc, "aggregated",
                  Reply("aggregated_content_based",
                        SelectSeq(TopCandidates(rc.candidates, rc.top_k),
                                  LAMBDA c : c.pid \in rProducts)))
  /\ UNCHANGED <<rebuildVars, codecVars, searchVars, events, rProducts, es>>

\* _get_popular_products(top_k); $limit raises unless top_k is positive
RecommendPopular ==
  /\ rc.pc = "popular"
  /\ IF rc.top_k <= 0
     THEN rc' = Finish(rc, "popularity", ErrorReply)
     ELSE \E ascending \in BOOLEAN :
            rc' = Finish(rc, "popularity",
                         Reply("absent", PopularResults(ascending, rc.top_k)))
  /\ UNCHANGED <<rebuildVars, codecVars, searchVars, events, rProducts, es>>

RecommendNext ==
  \/ RecommendProfile
  \/ RecommendTexts
  \/ RecommendEmbed
  \/ RecommendPersonalized
  \/ RecommendIndividualStep
  \/ RecommendIndividualReply
  \/ RecommendPopular

\* The events the histories are made of: both users, every type weight, an
\* unknown type, recent, old and future ts, no ts, no productId
EventPool ==
  {EventDoc("u", 1, "purchase", Ago(0, 1)),
   EventDoc("u", 2, "view", Ago(10 * DaysPerYear, 0)),
   EventDoc("u", 1, "share", NoTs),
   EventDoc("v", 2, "cart", Ago(200, 0)),
   EventDoc("v", 3, "wishlist", Ago(0 - 2, 0)),
   EventDoc("v", 2, "view", Ago(30, 0)),
   EventDoc("u", 0, "view", Ago(1, 0))}

\* A user with more interacted products than the profile takes, of which only
\* the least weighted one is still a product
LongHistory ==
  [i \in 1..(profile_size + 1) |->
     IF i <= profile_size
     THEN EventDoc("u", 11 + i, "purchase", Ago(0, i))
     ELSE EventDoc("u", 11, "view", Ago(1, 0))]

Histories ==
  {h \in UNION {[1..k -> EventPool] : k \in 0..MaxEvents} :
     \A i, j \in DOMAIN h : i # j => h[i] # h[j]}
    \cup {LongHistory}

RecommendInit ==
  /\ events \in Histories
  /\ rProducts \in {{1, 2, 3}, {3, 11}}
  /\ rc \in {RecommendRequest("u", f, d, t) :
               f \in TopKFields, d \in {0, 3}, t \in {{}, {"purchase"}}}
  /\ es = [pc |-> "idle"]
  /\ RebuildIdle
  /\ CodecIdle
  /\ SearchIdle

SpecRecommend == RecommendInit /\ [][RecommendNext]_vars

\* diversity = float(request.args.get("diversity", 0.3)), in tenths: the
\* default, no penalty, the largest documented value, and values outside
\* the documented range, which the handler accepts
DiversityValues == {0 - 3, 0, 3, 10, 60}

\* Requests of a user with one purchase, or none, for every diversity
DiversityInit ==
  /\ events \in {<<>>, <<EventDoc("u", 5, "purchase", Ago(0, 1))>>}
  /\ rProducts = {1, 2, 3, 5}
  /\ rc \in {RecommendRequest("u", f, d, {}) :
               f \in {Field("absent", 0), Field("int", 1)},
               d \in DiversityValues}
  /\ es = [pc |-> "idle"]
  /\ RebuildIdle
  /\ CodecIdle
  /\ SearchIdle

SpecDiversity == DiversityInit /\ [][RecommendNext]_vars

----------------------------------------------------------------------------
(* Properties of the recommender *)

\* the history has been read
Profiled ==
  \/ rc.pc \in {"texts", "embed", "neighbors", "individual", "popular"}
  \/ rc.pc = "done" /\ rc.top_k_arg.kind # "junk"

\* the events of evs on entity pid
RECURSIVE HalfBaseSum(_, _)
HalfBaseSum(evs, pid) ==
  IF evs = <<>> THEN 0
  ELSE (IF Head(evs).productId = pid
        THEN TypeWeight(Head(evs).type) * DaysPerYear ELSE 0)
         + HalfBaseSum(Tail(evs), pid)

\* C13: every fetched event on an entity adds at least half the base weight
\* of its type to the entity's profile weight, whatever its age: the weight
\* of each entity is at least the sum of the half base weights of its events,
\* and every fetched event with an entity id has its entity in the profile.
C13_DecayFloor ==
  Profiled =>
    /\ \A k \in DOMAIN rc.interacted :
         rc.interacted[k].weight >= HalfBaseSum(rc.fetched, rc.interacted[k].pid)
    /\ \A i \in DOMAIN rc.fetched :
         rc.fetched[i].productId # 0 =>
           \E k \in DOMAIN rc.interacted :
             rc.interacted[k].pid = rc.fetched[i].productId

\* the profile of a user whose only event on entity 2 is a view ten years
\* old: the view counts for half of 1.0
C13_Witness ==
  /\ Profiled
  /\ \E i \in DOMAIN rc.fetched :
       /\ rc.fetched[i].productId = 2
       /\ DaysOld(RequestHour, rc.fetched[i].ts) >= 10 * DaysPerYear
  /\ \E k \in DOMAIN rc.interacted :
       /\ rc.interacted[k].pid = 2
       /\ rc.interacted[k].weight = TypeWeight("view") * DaysPerYear

Answered == rc.pc = "done" /\ rc.response.status = 200

RecommendedIds ==
  {rc.response.recommendations[i].pid : i \in DOMAIN rc.response.recommendations}

\* C14: for a user with a non-empty history, no recommended entity is an
\* entity of one of the events fetched for the request, whichever ranker
\* produced the reply.
C14_ExcludesInteracted ==
  (Answered /\ rc.interacted # <<>>) =>
    \A i \in DOMAIN rc.fetched : rc.fetched[i].productId \notin RecommendedIds

\* C15: every successful reply carries the strategy tag "personalized" when
\* it comes from the user's profile and "popularity_fallback" when it comes
\* from the popularity ranker, and no other tag.
C15_StrategyTag ==
  Answered =>
    /\ rc.response.strategy \in {"personalized", "popularity_fallback"}
    /\ rc.ranker = "personalized" => rc.response.strategy = "personalized"
    /\ rc.ranker = "popularity" => rc.response.strategy = "popularity_fallback"

NoEventsOfUser == \A i \in DOMAIN events : events[i].userId # rc.user_id

C17_EmbedFailureFallsBack ==
  (rc.pc = "done" /\ rc.embed \in {"empty", "raise"}) =>
    /\ rc.response.status = 200
    /\ rc.ranker = "popularity"

----------------------------------------------------------------------------
(* The event service: EventService *)

MaxOps == 3         \* event-service calls per behaviour

valid_types == {"view", "cart", "purchase", "wishlist"}

\* The result of the last call: what it returned or raised
EventResult(raised, success, failed, deleted) ==
  [raised |-> raised, success |-> success, failed |-> failed,
   deleted |-> deleted]

\* the service after a call that wrote docs at time es.clock
Served(docs, result) ==
  [es EXCEPT !.clock = @ + 1, !.ops = @ + 1,
             !.written = @ \o docs, !.result = result,
             \* observations of the call, read by the properties only
             !.op = "single", !.submitted = 0, !.persisted = Len(docs)]

\* track_event(user_id, product_id, event_type)
TrackEvent(user_id, product_id, event_type) ==
  /\ es.pc = "ready"
  /\ es.ops < MaxOps
  /\ LET event == EventDoc(user_id, product_id, event_type, es.clock) IN
     IF event_type \notin valid_types
     THEN /\ events' = events
          /\ es' = Served(<<>>, EventResult(TRUE, 0, 0, 0))
     ELSE \/ /\ events' = Append(events, event)
             /\ es' = Served(<<event>>, EventResult(FALSE, 1, 0, 0))
          \/ /\ events' = events
             /\ es' = Served(<<>>, EventResult(TRUE, 0, 0, 0))
  /\ UNCHANGED <<rebuildVars, codecVars, searchVars, rProducts, rc>>

\* the event_data dicts a batch can hold; "" and 0 stand for a missing field
BatchItems ==
  {[user_id |-> "u", product_id |-> 1, type |-> "view"],
   [user_id |-> "v", product_id |-> 2, type |-> "cart"],
   [user_id |-> "u", product_id |-> 0, type |-> "view"],
   [user_id |-> "v", product_id |-> 1, type |-> "share"]}

\* all([user_id, product_id, event_type]) and event_type in valid_types
ValidItem(item) ==
  /\ item.user_id # ""
  /\ item.product_id # 0
  /\ item.type # ""
  /\ item.type \in valid_types

\* the documents list of batch_track_events
Documents(items, clock) ==
  LET valid == SelectSeq(items, ValidItem)
  IN [i \in DOMAIN valid |->
        EventDoc(valid[i].user_id, valid[i].product_id, valid[i].type, clock)]

\* the documents at the indices of the set kept, in order
Kept(docs, kept) ==
  LET F[i \in 0..Len(docs)] ==
        IF i = 0 THEN <<>>
        ELSE IF i \in kept THEN Append(F[i - 1], docs[i]) ELSE F[i - 1]
  IN F[Len(docs)]

\* the service after a call of batch_track_events(items)
Batch(served, items) ==
  [served EXCEPT !.op = "batch", !.submitted = Len(items)]

\* batch_track_events(events): insert_many(documents, ordered=False) inserts
\* all documents, or raises after inserting any part of them
BatchTrackEvents(items) ==
  /\ es.pc = "ready"
  /\ es.ops < MaxOps
  /\ LET documents == Documents(items, es.clock)
         invalid == Len(items) - Len(documents)
     IN IF documents = <<>>
        THEN /\ events' = events
             /\ es' = Batch(Served(<<>>, EventResult(FALSE, 0, invalid, 0)),
                            items)
        ELSE \/ /\ events' = events \o documents
                /\ es' = Batch(Served(documents,
                                      EventResult(FALSE, Len(documents),
                                                  invalid, 0)),
                               items)
             \/ \E kept \in SUBSET DOMAIN documents :
                  /\ kept # DOMAIN documents
                  /\ events' = events \o Kept(documents, kept)
                  /\ es' = Batch(Served(Kept(documents, kept),
                                        EventResult(FALSE, 0,
                                                    invalid + Len(documents),
                                                    0)),
                                 items)
  /\ UNCHANGED <<rebuildVars, codecVars, searchVars, rProducts, rc>>

\* delete_user_events(user_id)
DeleteUserEvents(user_id) ==
  /\ es.pc = "ready"
  /\ es.ops < MaxOps
  /\ LET kept == SelectSeq(events, LAMBDA e : e.userId # user_id) IN
     /\ events' = kept
     /\ es' = Served(<<>>, EventResult(FALSE, 0, 0, Len(events) - Len(kept)))
  /\ UNCHANGED <<rebuildVars, codecVars, searchVars, rProducts, rc>>

EventsNext ==
  \/ \E user_id \in Users, product_id \in {1, 2}, event_type \in {"view", "share"} :
       TrackEvent(user_id, product_id, event_type)
  \/ \E items \in UNION {[1..n -> BatchItems] : n \in 0..2} :
       BatchTrackEvents(items)
  \/ \E user_id \in Users : DeleteUserEvents(user_id)

EventsInit ==
  /\ events = <<>>
  /\ rProducts = {}
  /\ rc = [pc |-> "idle"]
  /\ es = [pc |-> "ready", clock |-> 0, ops |-> 0, written |-> <<>>,
           result |-> EventResult(FALSE, 0, 0, 0),
           op |-> "none", submitted |-> 0, persisted |-> 0]
  /\ RebuildIdle
  /\ CodecIdle
  /\ SearchIdle

SpecEvents == EventsInit /\ [][EventsNext]_vars

Occurrences(s, x) == Cardinality({i \in DOMAIN s : s[i] = x})

\* C18: every event the service once wrote is still stored, with the fields
\* it was written with.
C18_AppendOnly ==
  \A i \in DOMAIN es.written :
    Occurrences(events, es.written[i]) >= Occurrences(es.written, es.written[i])

----------------------------------------------------------------------------
(* Properties of interleaved and of ordered rebuild steps *)

AllAnswered == \A p \in DOMAIN rb : rb[p].pc = "done"

\* no step of any request failed
AllClean == \A p \in DOMAIN rb : Succeeded(rb[p]) /\ CleanRun(rb[p])

\* Two interleaved rebuilds without a failed step have ended with mirror and
\* Vector Index out of correspondence, on a catalog whose datapoint ids are
\* distinct
ConcurrentUnsafe ==
  /\ AllAnswered
  /\ AllClean
  /\ \A p \in DOMAIN rb : rb[p].overlapped
  /\ LET ids == Ids(IF scope = "image" THEN ImageItems(catalog)
                   ELSE TextItems(catalog))
     IN \A i, j \in DOMAIN ids : i # j => ids[i] # ids[j]
  /\ ~OneToOne

\* C19, the part on rebuilds that do not interleave: when every rebuild was
\* alone in flight and no step failed, mirror and Vector Index are in 1:1
\* correspondence once all are answered.
C19_OneInFlightSafe ==
  (/\ AllAnswered
   /\ AllClean
   /\ \A p \in DOMAIN rb : ~rb[p].overlapped)
    => OneToOne

\* The phases of a rebuild before its batches, in the order of the code
Phase(pc) ==
  CASE pc = "snapshot" -> 1
    [] pc = "delete_mirror" -> 2
    [] pc = "remove" -> 3
    [] pc = "enumerate" -> 4
    [] OTHER -> 5

RowsLost == \E id \in DOMAIN mirror :
              id \notin DOMAIN mirror' \/ mirror'[id] < mirror[id]

RowsGained == \E id \in DOMAIN mirror' :
                id \notin DOMAIN mirror \/ mirror'[id] > mirror[id]

\* request p takes a step of its current rebuild
Steps(p) == rb'[p] # rb[p] /\ rb'[p].run = rb[p].run

StepOrder(p) ==
  LET r == rb[p]
      r2 == rb'[p]
  IN Steps(p) =>
       /\ Phase(r2.pc) >= Phase(r.pc)
       /\ r2.old_ids # r.old_ids => r.pc = "snapshot"
       /\ (r.pc = "snapshot" /\ r2.kinds = r.kinds) => r2.old_ids = DOMAIN mirror
       /\ RowsLost => r.pc = "delete_mirror"
       /\ index \ index' # {} => r.pc = "remove"
       /\ (r.pc = "remove" /\ r2.kinds = r.kinds) => index' = index \ r.old_ids
       /\ RowsGained => r.pc = "insert"
       /\ index' \ index # {} => r.pc = "upsert"

\* C20: in every rebuild the snapshot of the mirrored ids is read before the
\* mirror rows are deleted, the rows are deleted before the Vector Index
\* delete, and both come before any mirror insert or Vector Index upsert;
\* the Vector Index delete removes exactly the snapshot.
C20_StepOrder == [][\A p \in DOMAIN rb : StepOrder(p)]_vars

\* a second rebuild has read a snapshot, emptied the mirror, removed the
\* snapshot from the Vector Index and written a batch to the mirror
C20_Witness ==
  \E p \in DOMAIN rb :
    /\ rb[p].run = 2
    /\ rb[p].pc = "upsert"
    /\ rb[p].old_ids # {}
    /\ CleanRun(rb[p])
    /\ index \cap rb[p].old_ids = {}
    /\ DOMAIN mirror # {}

----------------------------------------------------------------------------
(* Properties of the failing steps of a rebuild *)

\* the datapoint ids of all batches of a run
BatchIds(r) == UNION {Range(Ids(r.batches[i])) : i \in DOMAIN r.batches}

\* C21: a rebuild whose only failed step is the Vector Index delete of the
\* snapshot ids is never answered with an error, and once answered it has
\* enumerated the catalog, written every item of every batch to the mirror
\* and upserted it, and counted every item.
C21_DeleteFailureTolerated ==
  \A p \in DOMAIN rb :
    LET r == rb[p] IN
    r.kinds = {"remove"} =>
      /\ r.response # "error"
      /\ r.pc \notin {"snapshot", "delete_mirror", "remove"}
      /\ r.pc = "done" =>
           /\ Succeeded(r)
           /\ r.b = Len(r.batches)
           /\ BatchIds(r) \subseteq DOMAIN mirror
           /\ BatchIds(r) \subseteq index
           /\ r.total_upsert = r.enumerated

\* a rebuild of two batches has succeeded after its Vector Index delete failed
C21_Witness ==
  \E p \in DOMAIN rb :
    /\ rb[p].kinds = {"remove"}
    /\ rb[p].old_ids # {}
    /\ Succeeded(rb[p])
    /\ Len(rb[p].batches) = 2
    /\ rb[p].total_upsert = rb[p].enumerated

\* the Vector Index upsert of the step's batch failed
UpsertFailedNow(p) ==
  /\ rb[p].pc = "upsert"
  /\ rb[p].pairs # <<>>
  /\ rb'[p].upserted_ok = rb[p].upserted_ok

\* the ids of the batches before batch r.b
EarlierIds(r) ==
  UNION {Range(Ids(r.batches[i])) : i \in 1..(r.b - 1)}

\* the Vector Index held none of the batch's ids before the batch: the
\* rebuild removed what the index held at its start and no earlier batch
\* carried one of the ids
FreshIds(r) ==
  /\ r.startSynced
  /\ r.kinds \cap {"list", "remove"} = {}
  /\ Range(r.pairs) \cap EarlierIds(r) = {}

\* insert before upsert in every batch, and no rollback after a failed upsert
InsertThenUpsert(p) ==
  LET r == rb[p]
      r2 == rb'[p]
  IN Steps(p) =>
       /\ (r2.pc = "upsert" /\ r.pc # "upsert") =>
            (r.pc = "insert" /\ r2.b = r.b)
       /\ (r.pc = "insert" /\ r2.pc # "done") =>
            (r2.pc = "upsert" /\ r2.b = r.b)
       /\ r.pc = "upsert" => (r2.b = r.b + 1 \/ r2.pc = "return")
       /\ UpsertFailedNow(p) =>
            /\ mirror' = mirror
            /\ index' = index

ProfileTypeWeight ==
  [t \in {"purchase", "wishlist", "cart", "view", "share"} |->
     CASE t = "purchase" -> 6
       [] t = "wishlist" -> 4
       [] t = "cart" -> 3
       [] OTHER -> 2]

\* the decay factor of an event at the time of the request, in 1/730; an
\* event without ts is not decayed
DecayFactor(event) ==
  IF event.ts = NoTs THEN 2 * DaysPerYear
  ELSE Decay(DaysOld(RequestHour, event.ts))

\* the sum of type weight times decay factor over the events of evs on pid
RECURSIVE ProfileSum(_, _)
ProfileSum(evs, pid) ==
  IF evs = <<>> THEN 0
  ELSE (IF Head(evs).productId = pid
        THEN ProfileTypeWeight[Head(evs).type] * DecayFactor(Head(evs))
        ELSE 0)
         + ProfileSum(Tail(evs), pid)

\* C27: the profile holds each entity of the fetched events once and no
\* other entity; the weight of an entity is the sum over the fetched events
\* on it of type weight times decay factor; the entities come in
\* non-increasing order of weight; an event without entity id adds nothing.
C27_ProfileAggregation ==
  Profiled =>
    /\ \A k \in DOMAIN rc.interacted :
         /\ rc.interacted[k].pid # 0
         /\ rc.interacted[k].weight
              = ProfileSum(rc.fetched, rc.interacted[k].pid)
         /\ \E i \in DOMAIN rc.fetched :
              rc.fetched[i].productId = rc.interacted[k].pid
    /\ \A k, l \in DOMAIN rc.interacted :
         /\ k < l => rc.interacted[k].weight >= rc.interacted[l].weight
         /\ k # l => rc.interacted[k].pid # rc.interacted[l].pid
    /\ \A i \in DOMAIN rc.fetched :
         rc.fetched[i].productId # 0 =>
           \E k \in DOMAIN rc.interacted :
             rc.interacted[k].pid = rc.fetched[i].productId

\* a user with a recent purchase and an undated event of another type on
\* entity 1 and an old view on entity 2, fetched in another order: entity 1
\* comes first with weight 3.0 + 1.0, entity 2 with 0.5
C27_Witness ==
  /\ Profiled
  /\ Len(rc.fetched) = 3
  /\ rc.fetched[2].productId = 2
  /\ rc.interacted = <<[pid |-> 1, weight |-> 8 * (2 * DaysPerYear)],
                       [pid |-> 2, weight |-> 2 * DaysPerYear]>>

\* the base similarity of the accepted candidate pid: max(0, 1 - distance)
\* of its neighbor
BaseSimilarity(pid) ==
  LET k == CHOOSE i \in DOMAIN rc.neighbors : rc.neighbors[i].id = pid
  IN Max(0, 10 - rc.neighbors[k].dist)

\* the number of candidates of the category of candidate k accepted before
\* it; a product without category shares its category with none
EarlierOfCategory(k) ==
  LET c == Category(rc.candidates[k].pid)
  IN IF c = "none" THEN 0
     ELSE Cardinality({j \in 1..(k - 1) : Category(rc.candidates[j].pid) = c})

\* C26: in the personalized ranking the score of every accepted candidate
\* is at least half its base similarity and at most its base similarity;
\* for a diversity that is not negative it is the base similarity times
\* 1 - min(0.5, diversity * n * 0.1), n being the number of candidates of
\* its category accepted before it, and the base similarity itself when
\* diversity is 0.  Scores are in thousandths, diversity in tenths.
C26_DiversityPenalty ==
  (rc.pc = "done" /\ rc.ranker = "personalized" /\ Answered) =>
    \A k \in DOMAIN rc.candidates :
      LET base == BaseSimilarity(rc.candidates[k].pid)
          n == EarlierOfCategory(k)
          score == rc.candidates[k].score
      IN /\ 2 * score >= 100 * base
         /\ score <= 100 * base
         /\ rc.diversity >= 0 =>
              score = base * (100 - Min(50, rc.diversity * n))
         /\ rc.diversity = 0 => score = 100 * base

\* two candidates of one category were accepted with the largest
\* documented diversity: the second one has lost a tenth of its similarity
C26_Witness ==
  /\ rc.pc = "done" /\ rc.ranker = "personalized" /\ Answered
  /\ rc.diversity = 10
  /\ Len(rc.candidates) = 2
  /\ Category(rc.candidates[1].pid) = "c1"
  /\ Category(rc.candidates[2].pid) = "c1"
  /\ rc.candidates[2].score = 90 * BaseSimilarity(rc.candidates[2].pid)
  /\ rc.candidates[2].score > 0

\* the download of the step's image failed
DownloadFailedNow(p) == rb[p].pc = "fetch" /\ rb'[p].pc # "embed"

\* what a step with a failed download does
DownloadSkipped(p) ==
  LET r == rb[p]
      r2 == rb'[p]
      batch == r.batches[r.b]
  IN /\ r2.failed_count = r.failed_count + 1
     /\ reqLog' = reqLog
     /\ mirror' = mirror
     /\ index' = index
     /\ r2.total_upsert = r.total_upsert
     \* the rest of the batch
     /\ r.k < Len(batch) =>
          /\ r2.pc = "fetch" /\ r2.b = r.b /\ r2.k = r.k + 1
          /\ r2.batch_embeddings = r.batch_embeddings
     \* the batch's end: what was embedded, without the image
     /\ (r.k = Len(batch) /\ r.batch_embeddings # <<>>) =>
          /\ r2.pc = "insert" /\ r2.b = r.b
          /\ r2.pairs = Ids(r.batch_embeddings)
     \* the later batches
     /\ (r.k = Len(batch) /\ r.batch_embeddings = <<>>) =>
          IF r.b < Len(r.batches)
          THEN r2.pc = "fetch" /\ r2.b = r.b + 1 /\ r2.k = 1
          ELSE r2.pc = "return"

\* C24: an image of the image rebuild whose download fails is counted once
\* in failed_count; no embedding request is issued for it, nothing is
\* written to the mirror or the Vector Index for it, and the builder goes on
\* with the next item of the batch, the batch's writes or the next batch.
C24_DownloadFailureSkipped ==
  [][\A p \in DOMAIN rb :
       (scope = "image" /\ Steps(p) /\ DownloadFailedNow(p))
         => DownloadSkipped(p)]_vars

\* an image rebuild of two batches has answered after one download failed:
\* one image is counted as failed and all the others are indexed
C24_Witness ==
  \E p \in DOMAIN rb :
    /\ scope = "image"
    /\ Succeeded(rb[p])
    /\ rb[p].kinds = {"download"}
    /\ Len(rb[p].batches) = 2
    /\ rb[p].failed_count = 1
    /\ rb[p].total_upsert = rb[p].enumerated - 1

\* the counter of a run stays within the ceiling, and an embedding request
\* is issued only below it
CounterInRange(r) ==
  /\ r.request_count \in 0..REQUESTS_PER_MINUTE
  /\ r.pc = "embed" => r.request_count < REQUESTS_PER_MINUTE

\* the head of an item that finds the counter at the ceiling
WindowClosed(p) ==
  LET r == rb[p]
      r2 == rb'[p]
  IN (r.pc = "fetch" /\ r.request_count = REQUESTS_PER_MINUTE) =>
       /\ now' - r.minute_start >= Window
       /\ now' - now <= Window + TicksPerSecond
       /\ r2.request_count = 0
       /\ r2.minute_start = now'
       /\ reqLog' = reqLog

\* The admission control at the ceiling, whatever part of the window has
\* elapsed: in the rebuild itself the eight sleeps of 7.5 s fill the window
WaitBounded ==
  \A elapsed \in {0, 1, Window - 1, Window, Window + 1} :
    LET ac == AdmissionControl(
                [request_count |-> REQUESTS_PER_MINUTE, minute_start |-> 0],
                elapsed)
    IN /\ ac.now >= Window
       /\ ac.now - elapsed <= Window + TicksPerSecond
       /\ elapsed < Window => ac.now = Window + TicksPerSecond
       /\ ac.request_count = 0
       /\ ac.minute_start = ac.now

\* C25: in an image rebuild the request counter stays between 0 and
\* REQUESTS_PER_MINUTE; an item that finds it at the ceiling goes on only
\* when 60 seconds have passed since the window start, after a wait of at
\* most 61 seconds, with the counter at 0 and the window start at the
\* current time, and no embedding request is issued at the ceiling.
C25_AdmissionCounter ==
  /\ [](/\ WaitBounded
        /\ \A p \in DOMAIN rb : scope = "image" => CounterInRange(rb[p]))
  /\ [][\A p \in DOMAIN rb :
         (scope = "image" /\ Steps(p)) => WindowClosed(p)]_vars

\* the ninth image of a rebuild is about to be embedded: eight requests were
\* counted, the window was closed and a new one has begun
C25_Witness ==
  \E p \in DOMAIN rb :
    /\ rb[p].pc = "embed"
    /\ rb[p].b = 3 /\ rb[p].k = 3
    /\ Len(reqLog) = REQUESTS_PER_MINUTE
    /\ rb[p].request_count = 0
    /\ rb[p].minute_start = now
    /\ now >= Window

\* C28: an image rebuild that returns has counted every enumerated image
\* at most once: total_images_indexed + failed_count is the number of
\* enumerated images less the images passed to an upsert that failed, so it
\* is at most the number of enumerated images, and equal to it exactly when
\* no upsert failed.
C28_ImageAccounting ==
  \A p \in DOMAIN rb :
    LET r == rb[p] IN
    (scope = "image" /\ Succeeded(r)) =>
      /\ r.total_upsert + r.failed_count + r.lost = r.enumerated
      /\ r.total_upsert + r.failed_count <= r.enumerated
      /\ (r.total_upsert + r.failed_count = r.enumerated) <=> (r.lost = 0)
      /\ r.lost > 0 => r.kinds \cap {"upsert", "config"} # {}

\* an image rebuild of four images has returned after one download and the
\* upsert of its second batch failed: two indexed, one failed, one in
\* neither count
C28_Witness ==
  \E p \in DOMAIN rb :
    /\ scope = "image"
    /\ Succeeded(rb[p])
    /\ rb[p].enumerated = 4
    /\ rb[p].total_upsert = 2
    /\ rb[p].failed_count = 1
    /\ rb[p].lost = 1

\* the places (batch, item) of the enumerated images of a run
Places(r) ==
  {pl \in (DOMAIN r.batches) \X (1..image_batch_size) :
     pl[2] \in DOMAIN r.batches[pl[1]]}

\* C29: the images an image rebuild has enumerated for one entity carry
\* pairwise distinct datapoint ids.
C29_DistinctIds ==
  \A p \in DOMAIN rb :
    LET r == rb[p] IN
    scope = "image" =>
      \A x, y \in Places(r) :
        LET ix == r.batches[x[1]][x[2]]
            iy == r.batches[y[1]][y[2]]
        IN (x # y /\ ix.product_id = iy.product_id)
             => ix.datapoint_id # iy.datapoint_id

\* C30: the counts batch_track_events reports add up to the number of
\* submitted events, and its success count is the number of events the call
\* has stored.
C30_BatchCounts ==
  es.pc = "ready" /\ es.op = "batch" =>
    /\ es.result.success + es.result.failed = es.submitted
    /\ es.result.success = es.persisted

\* only embedding calls of the run have failed
OnlyEmbeddingFailures(r) == r.kinds \subseteq {"quota", "error", "empty"}

\* the batch numbers 1..n in order
InOrder(n) == [i \in 1..n |-> i]

\* what the text rebuild has done with its batches so far
BatchesOnce(r) ==
  /\ r.attempted \in {InOrder(r.b), InOrder(Max(r.b, 1) - 1)}
  /\ r.skipped \subseteq Range(r.attempted)
  /\ \A i \in r.skipped : Range(Ids(r.batches[i])) \cap DOMAIN mirror = {}
  /\ r.pc = "done" =>
       /\ Succeeded(r)
       /\ r.attempted = InOrder(Len(r.batches))
       /\ \A i \in DOMAIN r.batches \ r.skipped :
            Range(Ids(Tail(r.batches[i]))) \subseteq DOMAIN mirror

\* the ids a step writes to the mirror or to the Vector Index
Written ==
  {id \in DOMAIN mirror' : RowCount(mirror', id) > RowCount(mirror, id)}
    \cup (index' \ index)

\* a step writes ids of the batch at hand only, and that batch is not one
\* whose embedding call raised
WritesBatchAtHand(p) ==
  LET r == rb[p] IN
  (Steps(p) /\ Written # {}) =>
    /\ Written \subseteq Range(Ids(r.batches[r.b]))
    /\ r.b \notin r.skipped \cup rb'[p].skipped
    /\ \A i \in r.skipped : Written \cap Range(Ids(r.batches[i])) = {}

\* C22: a text rebuild in which only batch embedding calls fail comes to
\* its answer, and it takes every batch up exactly once and in order: of a
\* batch whose embedding call raised nothing is in the mirror and nothing
\* is written to the Vector Index, and every batch after it is taken up as
\* well.
C22_BatchFailureSkipped ==
  /\ [](\A p \in DOMAIN rb :
         (scope = "text" /\ OnlyEmbeddingFailures(rb[p]))
           => BatchesOnce(rb[p]))
  /\ [][\A p \in DOMAIN rb :
         (scope = "text" /\ OnlyEmbeddingFailures(rb'[p]))
           => WritesBatchAtHand(p)]_vars
  /\ \A p \in SeqProcs :
       (scope = "text" /\ InFlight(rb[p])) ~> (rb[p].pc = "done")

\* a text rebuild of two batches has answered after the embedding call of
\* its first batch raised: only the second batch is mirrored
C22_Witness ==
  \E p \in DOMAIN rb :
    /\ rb[p].pc = "done"
    /\ Len(rb[p].batches) = 2
    /\ rb[p].skipped = {1}
    /\ rb[p].attempted = <<1, 2>>
    /\ DOMAIN mirror = Range(Ids(rb[p].batches[2]))
    /\ index = DOMAIN mirror

====
